---- MODULE Spec2Model ----
(***************************************************************************)
(* NotifyMe: polling scheduler, delivery guard (WindowsNotifier), recent   *)
(* notification list and the ld246 / GitHub monitors.                      *)
(*                                                                         *)
(* Strings are sequences of tokens.  The tokens of LeadBytes and ContBytes *)
(* are single bytes of a three-byte UTF-8 rune; every other token is an    *)
(* ASCII text (one byte in server supplied text, a literal otherwise).     *)
(***************************************************************************)
EXTENDS Integers, Sequences, FiniteSets, TLC

\* ------------------------------------------------------------------ bounds
MaxGhItems == 2      \* distinct notification threads the GitHub server knows
MaxBatch == 2        \* longest listing a server returns in one response
MaxTicks == 1        \* ticker firings plus manual triggers in one run
MaxStamp == 1        \* Last-Modified values the GitHub server sends (1..MaxStamp)

\* --------------------------------------------------------- program constants
Capacity == 50       \* scheduler.go:283 / scheduler.go:413
ContentMax == 100    \* truncateString(..., 100), config.go:539

\* ------------------------------------------------------------------ strings
LeadBytes == {"E4", "EF"}
ContBytes == {"B8", "AD", "BF", "BD"}
ReplacementRune == <<"EF", "BF", "BD">>

\* strconv of a non-negative integer, as fmt's %d prints it
RECURSIVE Itoa(_)
Itoa(n) ==
    IF n < 10
    THEN <<CASE n = 0 -> "0" [] n = 1 -> "1" [] n = 2 -> "2" [] n = 3 -> "3"
             [] n = 4 -> "4" [] n = 5 -> "5" [] n = 6 -> "6" [] n = 7 -> "7"
             [] n = 8 -> "8" [] OTHER -> "9">>
    ELSE Itoa(n \div 10) \o Itoa(n % 10)

\* encoding/json writes a string coerced to valid UTF-8: every byte that does
\* not start a well-formed rune becomes U+FFFD
RECURSIVE jsonString(_)
jsonString(s) ==
    IF s = <<>> THEN <<>>
    ELSE IF Head(s) \in LeadBytes
    THEN IF Len(s) >= 3 /\ s[2] \in ContBytes /\ s[3] \in ContBytes
         THEN SubSeq(s, 1, 3) \o jsonString(SubSeq(s, 4, Len(s)))
         ELSE ReplacementRune \o jsonString(Tail(s))
    ELSE IF Head(s) \in ContBytes
    THEN ReplacementRune \o jsonString(Tail(s))
    ELSE <<Head(s)>> \o jsonString(Tail(s))

\* truncateString cuts at a byte offset
truncateString(s, maxLen) ==
    IF Len(s) <= maxLen THEN s ELSE SubSeq(s, 1, maxLen) \o <<".", ".", ".">>

\* ------------------------------------------------------------ notifications
Notification(id, title, content, link, source, time) ==
    [ID |-> id, Title |-> title, Content |-> content, Link |-> link,
     Source |-> source, Time |-> time]

IDsOf(list) == {list[i].ID : i \in DOMAIN list}

NoDuplicateIDs(list) ==
    \A i, j \in DOMAIN list : i # j => list[i].ID # list[j].ID

WithoutIDs(list, ids) ==
    LET keep(n) == n.ID \notin ids IN SelectSeq(list, keep)

\* ------------------------------------------------- GitHub server responses
ShortTitle == <<"f", "i", "x">>

\* a title of three-byte runes that is longer than ContentMax bytes
LongTitle ==
    [i \in 1..(3 * ((ContentMax \div 3) + 1)) |->
        CASE i % 3 = 1 -> "E4" [] i % 3 = 2 -> "B8" [] OTHER -> "AD"]

\* the notification thread k as the server lists it
GhItem(k) ==
    [id |-> Itoa(k),
     repo |-> <<"o/r">>,
     title |-> IF k % 2 = 0 THEN LongTitle ELSE ShortTitle,
     type |-> IF k % 2 = 0 THEN "PullRequest" ELSE "Issue",
     subjectURL |-> <<"https://api.github.com", "/repos/", "o/r",
                      IF k % 2 = 0 THEN "/pulls/" ELSE "/issues/">> \o Itoa(k),
     htmlURL |-> <<"https://github.com/notifications/">> \o Itoa(k),
     updatedAt |-> k]

convertGitHubAPIToHTML(apiURL, subjectType, repoFullName) ==
    IF apiURL = <<>> THEN <<>>
    ELSE IF Head(apiURL) = "https://api.github.com"
    THEN LET path == Tail(apiURL)
             htmlURL == IF path # <<>> /\ Head(path) = "/repos/"
                        THEN <<"https://github.com/">> \o Tail(path)
                        ELSE <<"https://github.com">> \o path
         IN [i \in DOMAIN htmlURL |->
                IF htmlURL[i] = "/pulls/" THEN "/pull/" ELSE htmlURL[i]]
    ELSE apiURL

\* one element of the result of FetchNotificationsSince
ghNotification(item) ==
    LET converted == convertGitHubAPIToHTML(item.subjectURL, item.type, item.repo)
    IN Notification(<<"github_">> \o item.id,
                    <<"[">> \o item.repo \o <<"] ">> \o item.title,
                    truncateString(item.title, ContentMax),
                    IF converted = <<>> THEN item.htmlURL ELSE converted,
                    "github",
                    item.updatedAt)

ghResult(items) == [i \in DOMAIN items |-> ghNotification(items[i])]

RECURSIVE SeqsUpTo(_, _)
SeqsUpTo(S, n) ==
    IF n = 0 THEN {<<>>}
    ELSE LET shorter == SeqsUpTo(S, n - 1)
         IN shorter \cup {Append(q, x) : q \in shorter, x \in S}

\* the listings a 200 response can carry
GhListings == SeqsUpTo({GhItem(k) : k \in 1..MaxGhItems}, MaxBatch)

\* the Last-Modified header of a response: 0 stands for an absent header
GhStamps == 0..MaxStamp

\* what the GitHub server can answer: no answer at all ("failed"), or a status
\* with a Last-Modified header (stamp, 0: none) and a body that cannot be
\* read, cannot be decoded, or decodes to items
GhResponses(stamps) ==
    {r \in [status : {"failed", "304", "500", "200"},
            body : {"ok", "unreadable", "undecodable"},
            stamp : stamps,
            items : GhListings] :
        /\ r.status = "failed" => r.stamp = 0
        /\ r.status \in {"failed", "304"} => r.body = "ok"
        /\ r.status = "500" => r.body # "undecodable"
        /\ (r.status # "200" \/ r.body # "ok") => r.items = <<>>}

\* a fetch that moves the cursor only once the body has been decoded
fetchNotificationsSinceLateCursor(token, cursor, r) ==
    IF token = <<>> \/ r.status \in {"failed", "500"} \/ r.body # "ok"
    THEN [requested |-> token # <<>>, cursor |-> cursor, notes |-> <<>>, err |-> "error"]
    ELSE [requested |-> TRUE,
          cursor |-> IF r.stamp # 0 THEN r.stamp ELSE cursor,
          notes |-> IF r.status = "200" THEN ghResult(r.items) ELSE <<>>,
          err |-> "nil"]

\* a fetch that leaves the cursor alone on 304
fetchNotificationsSinceNo304Cursor(token, cursor, r) ==
    IF r.status = "304" /\ token # <<>>
    THEN [requested |-> TRUE, cursor |-> cursor, notes |-> <<>>, err |-> "nil"]
    ELSE fetchNotificationsSinceLateCursor(token, cursor, r)

\* a fetch that does not test the token
fetchNotificationsSinceAnyToken(token, cursor, r) ==
    fetchNotificationsSinceLateCursor(<<"t">>, cursor, r)

\* FetchNotificationsSince(time.Time{}) of a monitor with this token and
\* cursor when the server answers r: whether the request was sent, the cursor
\* afterwards, and the values returned
fetchNotificationsSince(token, cursor, r) ==
    IF token = <<>>
    THEN [requested |-> FALSE, cursor |-> cursor, notes |-> <<>>, err |-> "error"]
    ELSE IF r.status = "failed"
    THEN [requested |-> TRUE, cursor |-> cursor, notes |-> <<>>, err |-> "error"]
    ELSE IF r.status = "304"
    THEN [requested |-> TRUE,
          cursor |-> IF r.stamp # 0 THEN r.stamp ELSE cursor,
          notes |-> <<>>, err |-> "nil"]
    ELSE IF r.body = "unreadable" \/ r.status # "200"
    THEN [requested |-> TRUE, cursor |-> cursor, notes |-> <<>>, err |-> "error"]
    ELSE IF r.body = "undecodable"
    THEN [requested |-> TRUE,
          cursor |-> IF r.stamp # 0 THEN r.stamp ELSE cursor,
          notes |-> <<>>, err |-> "error"]
    ELSE [requested |-> TRUE,
          cursor |-> IF r.stamp # 0 THEN r.stamp ELSE cursor,
          notes |-> ghResult(r.items), err |-> "nil"]

\* ------------------------------------------------- notifications.json
FileMissing == [kind |-> "missing", items |-> <<>>]
FileCorrupt == [kind |-> "corrupt", items |-> <<>>]

jsonObject(n) ==
    [ID |-> jsonString(n.ID), Title |-> jsonString(n.Title),
     Content |-> jsonString(n.Content), Link |-> jsonString(n.Link),
     Source |-> n.Source, Time |-> n.Time]

\* json.MarshalIndent of the list, then os.WriteFile
saveNotificationsWithData(notifications) ==
    [kind |-> "json",
     items |-> [i \in DOMAIN notifications |-> jsonObject(notifications[i])]]

\* a load that takes a missing file for an error
loadNotificationsMissingIsError(file) ==
    IF file.kind = "json"
    THEN [list |-> IF Len(file.items) > Capacity
                   THEN SubSeq(file.items, 1, Capacity)
                   ELSE file.items,
          err |-> FALSE]
    ELSE [list |-> <<>>, err |-> TRUE]

\* the list loadNotifications leaves in the scheduler, and its error
loadNotifications(file) ==
    IF file.kind = "missing" THEN [list |-> <<>>, err |-> FALSE]
    ELSE IF file.kind = "corrupt" THEN [list |-> <<>>, err |-> TRUE]
    ELSE [list |-> IF Len(file.items) > Capacity
                   THEN SubSeq(file.items, 1, Capacity)
                   ELSE file.items,
          err |-> FALSE]

\* a notification an earlier run stored: thread 100 + k, short title
StoredItem(k) == [GhItem(1) EXCEPT !.id = Itoa(100 + k), !.updatedAt = 0]

\* a file of n entries, as an earlier run wrote them
StoredFile(n) ==
    saveNotificationsWithData([i \in 1..n |-> ghNotification(StoredItem(i))])

InitialFiles == {FileMissing, StoredFile(Capacity + 2)}

\* ------------------------------------------------- addNotifications
\* the batch without the later repeats of an identifier (seenIDs)
\* a merge that forgets the batch's own repeats
firstOccurrencesKeepsRepeats(batch, seenIDs) == batch

RECURSIVE firstOccurrences(_, _)
firstOccurrences(batch, seenIDs) ==
    IF batch = <<>> THEN <<>>
    ELSE IF Head(batch).ID \in seenIDs
    THEN firstOccurrences(Tail(batch), seenIDs)
    ELSE <<Head(batch)>> \o firstOccurrences(Tail(batch), seenIDs \cup {Head(batch).ID})

newNotifications(list, batch) ==
    LET isNew(n) == n.ID \notin IDsOf(list)
    IN SelectSeq(firstOccurrences(batch, {}), isNew)

existingNotifications(list, batch) ==
    LET exists(n) == n.ID \in IDsOf(list)
    IN SelectSeq(firstOccurrences(batch, {}), exists)

\* a merge that never cuts the list
capListNoCut(list) == list

capList(list) == IF Len(list) > Capacity THEN SubSeq(list, 1, Capacity) ELSE list

\* a merge that leaves a re-delivered notification at its old place as well
mergeWithoutRemoval(list, batch) ==
    capList((existingNotifications(list, batch) \o newNotifications(list, batch)) \o list)

\* the list after the locked section of addNotifications
mergeNotifications(list, batch) ==
    LET moved == existingNotifications(list, batch)
        added == newNotifications(list, batch)
        filtered == IF Len(moved) > 0 THEN WithoutIDs(list, IDsOf(moved)) ELSE list
    IN capList((moved \o added) \o filtered)

\* ----------------------------------------------------------- ld246 messages
MaxMsgs == 1         \* messages the community site ever holds
MaxChat == 2         \* largest unreadChatNotificationCnt the site reports
MaxChecks == 3       \* checks of the ld246 loop that get an unread count
MaxConfigs == 1      \* UpdateConfig calls in one run

BaseURL == <<"https://ld246.com">>

\* the categories FetchUnreadMessages asks for, in its order
MsgTypes == <<"commented", "at", "reply", "following">>

\* the category of message k
typeOf(k) == MsgTypes[((k - 1) % Len(MsgTypes)) + 1]

\* an entry of apiResp.Data: message k as the site lists it
ServerMessage(k, hasRead) ==
    [id |-> Itoa(k),
     msg |-> <<"r", "e", " ">> \o Itoa(k),
     dataType |-> IF k % 2 = 1 THEN 3 ELSE 0,
     dataId |-> IF k % 2 = 1 THEN Itoa(k) ELSE <<>>,
     createdTime |-> k,
     hasRead |-> hasRead]

\* page 1 of /api/v2/notifications/<ty>: the messages of the category that
\* the site holds, read ones included, the latest first
RECURSIVE inboxListing(_, _, _)
inboxListing(inbox, ty, k) ==
    IF k = 0 THEN <<>>
    ELSE IF typeOf(k) = ty /\ inbox[k] # "absent"
    THEN <<ServerMessage(k, inbox[k] = "read")>> \o inboxListing(inbox, ty, k - 1)
    ELSE inboxListing(inbox, ty, k - 1)

unreadOf(inbox, ty) ==
    Cardinality({k \in DOMAIN inbox : typeOf(k) = ty /\ inbox[k] = "unread"})

\* countResp.Data
countResponse(inbox, chat) ==
    [total |-> unreadOf(inbox, "commented") + unreadOf(inbox, "at")
                 + unreadOf(inbox, "reply") + unreadOf(inbox, "following") + chat,
     byType |-> [ty \in {MsgTypes[i] : i \in DOMAIN MsgTypes} |-> unreadOf(inbox, ty)],
     chat |-> chat]

\* the categories whose unread count is positive, in the order of the code
typesToFetch(resp) ==
    LET Positive(ty) == resp.byType[ty] > 0 IN SelectSeq(MsgTypes, Positive)

\* messageID
messageKey(ty, item) == <<ty, "_">> \o item.id

messageTitle(ty) ==
    CASE ty = "commented" -> <<"U+6536 U+5230 U+56DE U+5E16">>
      [] ty = "at" -> <<"U+63D0 U+53CA U+6211 U+7684">>
      [] ty = "reply" -> <<"U+6536 U+5230 U+56DE U+590D">>
      [] ty = "following" -> <<"U+6211 U+5173 U+6CE8 U+7684">>
      [] ty = "chat" -> <<"U+804A U+5929 U+6D88 U+606F">>
      [] OTHER -> <<"U+65B0 U+6D88 U+606F">>

messageLink(item) ==
    IF item.dataId # <<>> /\ item.dataType \in {3, 33, 34, 35, 4, 9, 15, 16, 20, 22}
    THEN (BaseURL \o <<"/article/">>) \o item.dataId
    ELSE BaseURL

messageNotification(ty, item) ==
    Notification(<<"ld246_", ty, "_">> \o item.id,
                 messageTitle(ty),
                 truncateString(item.msg, ContentMax),
                 messageLink(item),
                 "ld246",
                 item.createdTime)

\* a comparison that does not look at hasRead
RECURSIVE newMessagesWithRead(_, _, _)
newMessagesWithRead(seen, ty, items) ==
    IF items = <<>> THEN <<>>
    ELSE IF messageKey(ty, Head(items)) \in seen
    THEN newMessagesWithRead(seen, ty, Tail(items))
    ELSE <<Head(items)>> \o newMessagesWithRead(seen, ty, Tail(items))

\* the entries the comparison loop of fetchNotificationsByType keeps: unread
\* and with a key that is not in m.seenMessages
RECURSIVE newMessages(_, _, _)
newMessages(seen, ty, items) ==
    IF items = <<>> THEN <<>>
    ELSE IF Head(items).hasRead \/ messageKey(ty, Head(items)) \in seen
    THEN newMessages(seen, ty, Tail(items))
    ELSE <<Head(items)>> \o newMessages(seen, ty, Tail(items))

\* newNotifications and newMessageIDs of fetchNotificationsByType
messageNotes(seen, ty, items) ==
    [i \in DOMAIN newMessages(seen, ty, items) |->
        messageNotification(ty, newMessages(seen, ty, items)[i])]

newMessageIDs(seen, ty, items) ==
    {messageKey(ty, newMessages(seen, ty, items)[i]) :
        i \in DOMAIN newMessages(seen, ty, items)}

\* a chat notification whose identifier leaves the count out
chatNotificationPlainID(count, now) ==
    Notification(<<"ld246_chat">>,
                 (<<"U+804A U+5929 U+6D88 U+606F (">> \o Itoa(count)) \o <<")">>,
                 (<<"U+60A8 U+6709 ">> \o Itoa(count))
                    \o <<" U+6761 U+672A U+8BFB U+804A U+5929 U+6D88 U+606F">>,
                 <<"https://ld246.com/chats">>,
                 "ld246",
                 now)

\* chatNotification; now stands for time.Now().UnixMilli()
chatNotification(count, now) ==
    Notification(<<"ld246_chat_">> \o Itoa(count),
                 (<<"U+804A U+5929 U+6D88 U+606F (">> \o Itoa(count)) \o <<")">>,
                 (<<"U+60A8 U+6709 ">> \o Itoa(count))
                    \o <<" U+6761 U+672A U+8BFB U+804A U+5929 U+6D88 U+606F">>,
                 <<"https://ld246.com/chats">>,
                 "ld246",
                 now)

chatID(count) == chatNotification(count, 0).ID

\* saveSeenMessages: the keys as a JSON array, in the order of the map
saveSeenMessages(seen) == [kind |-> "json", ids |-> {jsonString(id) : id \in seen}]

\* a monitor that starts with an empty seen-set whatever the file holds
loadSeenMessagesForgets(file) == {}

\* loadSeenMessages: an empty set unless the file parses
loadSeenMessages(file) == IF file.kind = "json" THEN file.ids ELSE {}

MsgFileMissing == [kind |-> "missing", ids |-> {}]

\* every identifier a notification of the model can carry towards the sink
NoteIDs ==
    ({ghNotification(GhItem(k)).ID : k \in 1..MaxGhItems}
       \cup {messageNotification(typeOf(k), ServerMessage(k, FALSE)).ID : k \in 1..MaxMsgs})
       \cup {chatID(c) : c \in 1..MaxChat}

\* ------------------------------------------------------------------ state
VARIABLES
    running,              \* Scheduler.running
    ghToken,              \* GitHubMonitor.token
    lastModified,         \* GitHubMonitor.lastModified, 0 for the zero time
    recentNotifications,  \* Scheduler.recentNotifications
    notifFile,            \* data/notifications.json
    notifiedIDs,          \* WindowsNotifier.notifiedIDs
    pc,                   \* where each goroutine stands
    stage,                \* the fetch whose batch a goroutine is handling
    batch,                \* the batch a goroutine got from its fetch
    idx,                  \* the batch entry NotifyBatch is at
    err,                  \* what the latest Notify call of the goroutine returned
    batchErr,             \* what NotifyBatch returned
    toSave,               \* notificationsToSave of a running addNotifications
    sinkOK,               \* toast pushes that succeeded, per identifier
    ticks,                \* ticker firings and manual triggers so far
    startedEmpty          \* the list was empty after construction

\* ld246 monitor (Ld246Monitor) and the goroutines inside FetchRecentReplies
VARIABLES
    seenArticles,   \* m.seenArticles: oId -> articleState
    seenFile,       \* the article state file
    ldPc,           \* goroutine -> position inside FetchRecentReplies
    ldListing,      \* goroutine -> apiResp.Data.Articles
    ldNew,          \* goroutine -> newNotifications
    ldUpdated,      \* goroutine -> updatedArticles
    ldOverlap,      \* goroutine -> another FetchRecentReplies ran during this one
    lastFetch,      \* listing and result of the latest FetchRecentReplies that returned nil
    fetches         \* FetchRecentReplies calls that got a listing so far

ldVars == <<seenArticles, seenFile, ldPc, ldListing, ldNew, ldUpdated, ldOverlap, lastFetch,
            fetches>>

LdThreads == {"ldLoop", "manual"}

NoArticles == [id \in {} |-> 0]

NoFetch == [listing |-> <<>>, clean |-> FALSE, notes |-> <<>>]

SeenFileMissing == [kind |-> "missing", articles |-> NoArticles]

\* the monitor with nothing recorded and no request under way
LdIdle ==
    /\ seenArticles = NoArticles
    /\ seenFile = SeenFileMissing
    /\ ldPc = [t \in LdThreads |-> "idle"]
    /\ ldListing = [t \in LdThreads |-> <<>>]
    /\ ldNew = [t \in LdThreads |-> <<>>]
    /\ ldUpdated = [t \in LdThreads |-> NoArticles]
    /\ ldOverlap = [t \in LdThreads |-> FALSE]
    /\ lastFetch = NoFetch
    /\ fetches = 0

\* one call of FetchNotificationsSince on a monitor of its own
VARIABLES
    ghCall,         \* the token, the cursor before the call and the server's answer
    ghReturn        \* what the call returned and the cursor after it

ghVars == <<ghCall, ghReturn>>

NoCall == [made |-> FALSE]

GhQuiet == ghCall = NoCall /\ ghReturn = NoCall

\* Stop: the context of the loops and the caller of Stop
VARIABLES
    cancelled,      \* s.cancel() has been called: s.ctx.Done() is closed
    stopPc          \* the caller of Stop: "idle", "waiting" (in the select) or "returned"

stopVars == <<cancelled, stopPc>>

StopIdle == cancelled = FALSE /\ stopPc = "idle"

\* the community site's messages, and FetchUnreadMessages on the monitors
\* that NewScheduler and UpdateConfig build
VARIABLES
    inbox,          \* the site: message -> "absent", "unread" or "read"
    chatUnread,     \* the site: unreadChatNotificationCnt
    monitorGen,     \* s.ld246Monitor: how many times UpdateConfig has replaced it
    seenMessages,   \* monitor -> m.seenMessages
    seenMsgFile,    \* the message state file
    msgMon,         \* goroutine -> the monitor its FetchUnreadMessages runs on
    msgTodo,        \* goroutine -> the categories still to fetch
    msgListing,     \* goroutine -> category and apiResp.Data of its latest fetch
    msgNewIDs,      \* goroutine -> newMessageIDs
    msgOut,         \* goroutine -> allNotifications
    msgChat,        \* goroutine -> countResp.Data.UnreadChatNotificationCnt
    chatLog,        \* per count request: the chat count it got, the chat toasts before it
    checks          \* unread-count requests so far

msgVars == <<inbox, chatUnread, monitorGen, seenMessages, seenMsgFile, msgMon, msgTodo,
             msgListing, msgNewIDs, msgOut, msgChat, chatLog, checks>>

NoListing == [ty |-> "none", items |-> <<>>]

\* the first monitor, with no message recorded and no request under way
MsgIdle ==
    /\ inbox = [k \in 1..MaxMsgs |-> "absent"]
    /\ chatUnread = 0
    /\ monitorGen = 0
    /\ seenMessages = [g \in 0..MaxConfigs |-> {}]
    /\ seenMsgFile = MsgFileMissing
    /\ msgMon = [t \in LdThreads |-> 0]
    /\ msgTodo = [t \in LdThreads |-> <<>>]
    /\ msgListing = [t \in LdThreads |-> NoListing]
    /\ msgNewIDs = [t \in LdThreads |-> {}]
    /\ msgOut = [t \in LdThreads |-> <<>>]
    /\ msgChat = [t \in LdThreads |-> 0]
    /\ chatLog = <<>>
    /\ checks = 0

\* the goroutines of the scheduler and the callers of its control methods
VARIABLES
    loopsAlive,     \* source -> polling loops of the source that have not returned
    callPc,         \* caller of Start -> "idle", or "spawn" between the unlock and the go statements
    lastCall,       \* the latest control call and the running flag it found
    starts          \* Start calls that found the scheduler stopped

runVars == <<loopsAlive, callPc, lastCall, starts>>

Sources == {"ld246", "github"}

Callers == {1, 2}

NoControlCall == [op |-> "none", wasRunning |-> FALSE]

\* no polling loop and no control call yet
RunIdle ==
    /\ loopsAlive = [src \in Sources |-> 0]
    /\ callPc = [c \in Callers |-> "idle"]
    /\ lastCall = NoControlCall
    /\ starts = 0

\* the mutexes: which ones each thread holds, and where it is in its call
VARIABLES held, lockPc

lockVars == <<held, lockPc>>

\* the UI thread, the ld246 loop and the goroutine of TriggerCheck, which runs
\* checkGitHub as the GitHub loop does
LockThreads == {"ui", "ldLoop", "manual"}

NoOperation == [op |-> "idle", at |-> 0, gen |-> 0]

LockIdle ==
    /\ held = [t \in LockThreads |-> {}]
    /\ lockPc = [t \in LockThreads |-> NoOperation]

\* the ld246 monitor's token, the requests its http client has sent and the
\* outcome of its last sub-operation
VARIABLES ld246Token, httpCalls, fetchErr

reqVars == <<ld246Token, httpCalls, fetchErr>>

NoSubOperation == [op |-> "none", err |-> "none"]

ReqIdle ==
    /\ ld246Token = <<"t">>
    /\ httpCalls = 0
    /\ fetchErr = NoSubOperation

auxVars == <<ghVars, stopVars, msgVars, runVars, lockVars, reqVars>>

vars == <<running, ghToken, lastModified, recentNotifications, notifFile, notifiedIDs,
          pc, stage, batch, idx, err, batchErr, toSave, sinkOK, ticks, startedEmpty,
         ldVars, auxVars>>

Loops == {"ldLoop", "ghLoop"}
Threads == Loops \cup {"manual"}

GhIDs == {ghNotification(GhItem(k)).ID : k \in 1..MaxGhItems}

\* NewScheduler, before Start
Init ==
    /\ running = FALSE
    /\ ghToken \in {<<>>, <<"t">>}
    /\ lastModified = 0
    /\ notifFile \in InitialFiles
    /\ recentNotifications = loadNotifications(notifFile).list
    /\ startedEmpty = (loadNotifications(notifFile).list = <<>>)
    /\ notifiedIDs = {}
    /\ pc = [t \in Threads |-> "off"]
    /\ stage = [t \in Threads |-> "none"]
    /\ batch = [t \in Threads |-> <<>>]
    /\ idx = [t \in Threads |-> 0]
    /\ err = [t \in Threads |-> "none"]
    /\ batchErr = [t \in Threads |-> "none"]
    /\ toSave = [t \in Threads |-> <<>>]
    /\ sinkOK = [id \in NoteIDs |-> 0]
    /\ ticks = 0
    /\ LdIdle
    /\ GhQuiet
    /\ StopIdle
    /\ RunIdle
    /\ LockIdle
    /\ ReqIdle
    /\ MsgIdle

\* the first statement of a loop's check, or of the manual goroutine
FirstStep(t) == IF t = "ghLoop" THEN "gh_fetch" ELSE "ld_check"

\* a loop that ends with the check it has just made
ContinueEndsLoop(t, st) ==
    CASE st = "replies" -> "msg_count"
      [] st = "ld246" -> IF t = "manual" THEN "gh_fetch" ELSE "off"
      [] OTHER -> "off"

\* where a goroutine goes when the handling of one fetch is over
Continue(t, st) ==
    CASE st = "replies" -> "msg_count"
      [] st = "ld246" -> IF t = "manual" THEN "gh_fetch" ELSE "wait"
      [] OTHER -> IF t = "manual" THEN "off" ELSE "wait"

Start ==
    /\ IF running
       THEN UNCHANGED <<running, pc>>
       ELSE /\ running' = TRUE
            /\ pc' = [t \in Threads |-> IF t \in Loops THEN FirstStep(t) ELSE pc[t]]
    /\ UNCHANGED <<ghToken, lastModified, recentNotifications, notifFile, notifiedIDs,
                   stage, batch, idx, err, batchErr, toSave, sinkOK, ticks, startedEmpty>>
    /\ UNCHANGED ldVars
    /\ UNCHANGED auxVars

\* case <-ticker.C of a polling loop
Tick(t) ==
    /\ t \in Loops
    /\ pc[t] = "wait"
    /\ ticks < MaxTicks
    /\ pc' = [pc EXCEPT ![t] = FirstStep(t)]
    /\ ticks' = ticks + 1
    /\ UNCHANGED <<running, ghToken, lastModified, recentNotifications, notifFile,
                   notifiedIDs, stage, batch, idx, err, batchErr, toSave, sinkOK,
                   startedEmpty>>
    /\ UNCHANGED ldVars
    /\ UNCHANGED auxVars

\* the goroutine of a manual check runs checkLd246, then checkGitHub
TriggerCheck ==
    /\ IF ~running
       THEN UNCHANGED <<pc, ticks>>
       ELSE /\ pc["manual"] = "off"
            /\ ticks < MaxTicks
            /\ pc' = [pc EXCEPT !["manual"] = FirstStep("manual")]
            /\ ticks' = ticks + 1
    /\ UNCHANGED <<running, ghToken, lastModified, recentNotifications, notifFile,
                   notifiedIDs, stage, batch, idx, err, batchErr, toSave, sinkOK,
                   startedEmpty>>
    /\ UNCHANGED ldVars
    /\ UNCHANGED auxVars

\* checkLd246 while the community site cannot be reached: FetchRecentReplies
\* and FetchUnreadMessages both return an error, which is logged
CheckLd246Down(t) ==
    /\ pc[t] = "ld_check"
    /\ pc' = [pc EXCEPT ![t] = Continue(t, "ld246")]
    /\ UNCHANGED <<running, ghToken, lastModified, recentNotifications, notifFile,
                   notifiedIDs, stage, batch, idx, err, batchErr, toSave, sinkOK, ticks,
                   startedEmpty>>
    /\ UNCHANGED ldVars
    /\ UNCHANGED auxVars

\* checkGitHub up to NotifyBatch: FetchNotificationsSince and the branch on
\* its result
FetchNotificationsSince(t) ==
    /\ pc[t] = "gh_fetch"
    /\ \E r \in GhResponses(GhStamps) :
          LET out == fetchNotificationsSince(ghToken, lastModified, r)
          IN  /\ lastModified' = out.cursor
              /\ IF out.err = "nil" /\ Len(out.notes) > 0
                 THEN /\ batch' = [batch EXCEPT ![t] = out.notes]
                      /\ stage' = [stage EXCEPT ![t] = "github"]
                      /\ idx' = [idx EXCEPT ![t] = 1]
                      /\ pc' = [pc EXCEPT ![t] = "n_check"]
                 ELSE /\ pc' = [pc EXCEPT ![t] = Continue(t, "github")]
                      /\ UNCHANGED <<batch, stage, idx>>
    /\ UNCHANGED <<running, ghToken, recentNotifications, notifFile, notifiedIDs,
                   err, batchErr, toSave, sinkOK, ticks, startedEmpty>>
    /\ UNCHANGED ldVars
    /\ UNCHANGED auxVars

\* the notification NotifyBatch is at
Current(t) == batch[t][idx[t]]

\* a guard that never finds an identifier
isNotifiedNever(ids, id) == FALSE

\* n.notifiedIDs[notification.ID]
isNotified(ids, id) == id \in ids

\* a NotifyBatch that returns the first error it meets
NotifyReturnStopsAtError(t, result) ==
    /\ err' = [err EXCEPT ![t] = result]
    /\ idx' = [idx EXCEPT ![t] = @ + 1]
    /\ IF idx[t] = Len(batch[t]) \/ result = "error"
       THEN /\ batchErr' = [batchErr EXCEPT ![t] = IF result = "error" THEN "error" ELSE "nil"]
            /\ pc' = [pc EXCEPT ![t] = "merge"]
       ELSE /\ pc' = [pc EXCEPT ![t] = "n_check"]
            /\ UNCHANGED batchErr

\* a NotifyBatch that returns after its first entry
NotifyReturnSkipsRest(t, result) ==
    /\ err' = [err EXCEPT ![t] = result]
    /\ idx' = [idx EXCEPT ![t] = @ + 1]
    /\ batchErr' = [batchErr EXCEPT ![t] = "nil"]
    /\ pc' = [pc EXCEPT ![t] = "merge"]

\* Notify returns result; NotifyBatch logs an error and goes on to the next
\* entry, and returns nil after the last
NotifyReturn(t, result) ==
    /\ err' = [err EXCEPT ![t] = result]
    /\ idx' = [idx EXCEPT ![t] = @ + 1]
    /\ IF idx[t] = Len(batch[t])
       THEN /\ batchErr' = [batchErr EXCEPT ![t] = "nil"]
            /\ pc' = [pc EXCEPT ![t] = "merge"]
       ELSE /\ pc' = [pc EXCEPT ![t] = "n_check"]
            /\ UNCHANGED batchErr

\* Notify: the test under the read lock
NotifyCheck(t) ==
    /\ pc[t] = "n_check"
    /\ IF isNotified(notifiedIDs, Current(t).ID)
       THEN NotifyReturn(t, "nil")
       ELSE /\ pc' = [pc EXCEPT ![t] = "n_push"]
            /\ UNCHANGED <<idx, err, batchErr>>
    /\ UNCHANGED <<running, ghToken, lastModified, recentNotifications, notifFile,
                   notifiedIDs, stage, batch, toSave, sinkOK, ticks, startedEmpty>>
    /\ UNCHANGED ldVars
    /\ UNCHANGED auxVars

\* a Notify that marks the identifier whether or not the push succeeded
NotifyPushMarksAlways(t) ==
    /\ pc[t] = "n_push"
    /\ \E pushed \in BOOLEAN :
          IF pushed
          THEN /\ sinkOK' = [sinkOK EXCEPT ![Current(t).ID] = @ + 1]
               /\ pc' = [pc EXCEPT ![t] = "n_mark"]
               /\ UNCHANGED <<idx, err, batchErr, notifiedIDs>>
          ELSE /\ NotifyReturn(t, "error")
               /\ notifiedIDs' = notifiedIDs \cup {Current(t).ID}
               /\ UNCHANGED sinkOK
    /\ UNCHANGED <<running, ghToken, lastModified, recentNotifications, notifFile,
                   stage, batch, toSave, ticks, startedEmpty>>
    /\ UNCHANGED ldVars
    /\ UNCHANGED auxVars

\* Notify: notificationToast.Push()
NotifyPush(t) ==
    /\ pc[t] = "n_push"
    /\ \E pushed \in BOOLEAN :
          IF pushed
          THEN /\ sinkOK' = [sinkOK EXCEPT ![Current(t).ID] = @ + 1]
               /\ pc' = [pc EXCEPT ![t] = "n_mark"]
               /\ UNCHANGED <<idx, err, batchErr>>
          ELSE /\ NotifyReturn(t, "error")
               /\ UNCHANGED sinkOK
    /\ UNCHANGED <<running, ghToken, lastModified, recentNotifications, notifFile,
                   notifiedIDs, stage, batch, toSave, ticks, startedEmpty>>
    /\ UNCHANGED ldVars
    /\ UNCHANGED auxVars

\* Notify: the mark under the write lock
NotifyMark(t) ==
    /\ pc[t] = "n_mark"
    /\ notifiedIDs' = notifiedIDs \cup {Current(t).ID}
    /\ NotifyReturn(t, "nil")
    /\ UNCHANGED <<running, ghToken, lastModified, recentNotifications, notifFile,
                   stage, batch, toSave, sinkOK, ticks, startedEmpty>>
    /\ UNCHANGED ldVars
    /\ UNCHANGED auxVars

\* addNotifications: the section under notificationsMu
AddMerge(t) ==
    /\ pc[t] = "merge"
    /\ recentNotifications' = mergeNotifications(recentNotifications, batch[t])
    /\ toSave' = [toSave EXCEPT ![t] = recentNotifications']
    /\ pc' = [pc EXCEPT ![t] = "save"]
    /\ UNCHANGED <<running, ghToken, lastModified, notifFile, notifiedIDs, stage, batch,
                   idx, err, batchErr, sinkOK, ticks, startedEmpty>>
    /\ UNCHANGED ldVars
    /\ UNCHANGED auxVars

\* addNotifications: saveNotificationsWithData after the unlock (a failed
\* write is logged), then the caller's next statement
AddSave(t) ==
    /\ pc[t] = "save"
    /\ \E written \in BOOLEAN :
          notifFile' = IF written THEN saveNotificationsWithData(toSave[t]) ELSE notifFile
    /\ pc' = [pc EXCEPT ![t] = Continue(t, stage[t])]
    /\ stage' = [stage EXCEPT ![t] = "none"]
    /\ batch' = [batch EXCEPT ![t] = <<>>]
    /\ idx' = [idx EXCEPT ![t] = 0]
    /\ err' = [err EXCEPT ![t] = "none"]
    /\ batchErr' = [batchErr EXCEPT ![t] = "none"]
    /\ toSave' = [toSave EXCEPT ![t] = <<>>]
    /\ UNCHANGED <<running, ghToken, lastModified, recentNotifications, notifiedIDs,
                   sinkOK, ticks, startedEmpty>>
    /\ UNCHANGED ldVars
    /\ UNCHANGED auxVars

Next ==
    \/ Start
    \/ TriggerCheck
    \/ \E t \in Threads : Tick(t)
    \/ \E t \in Threads : CheckLd246Down(t)
    \/ \E t \in Threads : FetchNotificationsSince(t)
    \/ \E t \in Threads : NotifyCheck(t)
    \/ \E t \in Threads : NotifyPush(t)
    \/ \E t \in Threads : NotifyMark(t)
    \/ \E t \in Threads : AddMerge(t)
    \/ \E t \in Threads : AddSave(t)

Spec == Init /\ [][Next]_vars

\* ------------------------------------------------------------ ld246 monitor
MaxArticles == 2     \* articles the community site knows
MaxTime == 2         \* latest articleUpdateTime the site reports (0: none)
MaxCount == 1        \* largest articleCommentCount the site reports
MaxFetches == 3      \* FetchRecentReplies calls that get a listing in one run

\* the title prefix of a notification for an article with a new reply
ReplyMarker == "U+6709 U+65B0 U+56DE U+5E16: "

Spaces == {" ", "\t", "\n", "\r"}

\* the first '>' that has a '<' before it, or 0
tagEnd(s) ==
    LET ends == {i \in DOMAIN s : s[i] = ">" /\ \E j \in 1..(i - 1) : s[j] = "<"}
    IN  IF ends = {} THEN 0 ELSE CHOOSE i \in ends : \A k \in ends : i <= k

\* the last '<' before position e
tagStart(s, e) ==
    CHOOSE j \in 1..(e - 1) : s[j] = "<" /\ \A k \in (j + 1)..(e - 1) : s[k] # "<"

\* stripHTML: the loop that removes tags
RECURSIVE stripTags(_)
stripTags(s) ==
    IF tagEnd(s) = 0 THEN s
    ELSE stripTags(SubSeq(s, 1, tagStart(s, tagEnd(s)) - 1)
                     \o SubSeq(s, tagEnd(s) + 1, Len(s)))

\* strings.ReplaceAll
RECURSIVE ReplaceAll(_, _, _)
ReplaceAll(s, old, new) ==
    IF Len(s) < Len(old) THEN s
    ELSE IF SubSeq(s, 1, Len(old)) = old
    THEN new \o ReplaceAll(SubSeq(s, Len(old) + 1, Len(s)), old, new)
    ELSE <<Head(s)>> \o ReplaceAll(Tail(s), old, new)

\* strings.TrimSpace
RECURSIVE TrimSpace(_)
TrimSpace(s) ==
    IF s = <<>> THEN s
    ELSE IF Head(s) \in Spaces THEN TrimSpace(Tail(s))
    ELSE IF s[Len(s)] \in Spaces THEN TrimSpace(SubSeq(s, 1, Len(s) - 1))
    ELSE s

stripHTML(html) ==
    LET r0 == stripTags(html)
        r1 == ReplaceAll(r0, <<"&", "l", "t", ";">>, <<"<">>)
        r2 == ReplaceAll(r1, <<"&", "g", "t", ";">>, <<">">>)
        r3 == ReplaceAll(r2, <<"&", "a", "m", "p", ";">>, <<"&">>)
        r4 == ReplaceAll(r3, <<"&", "q", "u", "o", "t", ";">>, <<"\"">>)
        r5 == ReplaceAll(r4, <<"&", "#", "3", "9", ";">>, <<"'">>)
        r6 == ReplaceAll(r5, <<"&", "n", "b", "s", "p", ";">>, <<" ">>)
    IN  TrimSpace(r6)

\* an entry of apiResp.Data.Articles: article k as the site lists it when its
\* update time is upd and it has cnt comments
ArticleItem(k, upd, cnt) ==
    [oId |-> Itoa(k),
     articleTitle |-> <<"t", "o", "p", "i", "c">> \o Itoa(k),
     articlePreviewContent |->
         IF k % 2 = 1
         THEN <<"<", "p", ">", "h", "i", " ", "&", "a", "m", "p", ";", " ", "<", "/", "p", ">">>
         ELSE <<>>,
     articleCreateTime |-> 1,
     articleUpdateTime |-> upd,
     articleCommentCount |-> cnt]

\* the ways the site can list article k
ArticleVariants(k) ==
    {ArticleItem(k, upd, cnt) : upd \in (IF k = 1 THEN {0} \cup 2..MaxTime ELSE {0}),
                                cnt \in (IF k = 1 THEN 0..MaxCount ELSE {0})}

\* the first page of /api/v2/articles/latest/reply: every article at most once
ReplyListings ==
    {l \in SeqsUpTo(UNION {ArticleVariants(k) : k \in 1..MaxArticles}, MaxArticles) :
        \A i, j \in DOMAIN l : l[i].oId = l[j].oId => i = j}

listedIDs(articles) == {articles[i].oId : i \in DOMAIN articles}

\* timeValue: the update time, or the create time when there is none
timeValueOf(item) ==
    IF item.articleUpdateTime = 0 THEN item.articleCreateTime ELSE item.articleUpdateTime

stateOf(item) ==
    [lastUpdateTime |-> timeValueOf(item), commentCount |-> item.articleCommentCount]

\* a comparison that takes every article listed again for one with a new reply
hasNewReplyOnRelisting(seen, item) == item.oId \in DOMAIN seen

\* exists && (timeValue > LastUpdateTime || ArticleCommentCount > CommentCount)
hasNewReply(seen, item) ==
    /\ item.oId \in DOMAIN seen
    /\ \/ timeValueOf(item) > seen[item.oId].lastUpdateTime
       \/ item.articleCommentCount > seen[item.oId].commentCount

isNew(seen, item) == item.oId \notin DOMAIN seen \/ hasNewReply(seen, item)

\* an identifier that never carries the time stamp
articleNotificationIDPlain(item, reply) == <<"ld246_article_">> \o item.oId

\* notificationID
articleNotificationID(item, reply) ==
    IF reply
    THEN ((<<"ld246_article_">> \o item.oId) \o <<"_">>) \o Itoa(timeValueOf(item))
    ELSE <<"ld246_article_">> \o item.oId

articleLink(oId) == (BaseURL \o <<"/article/">>) \o oId

articleContent(item) ==
    LET content == truncateString(stripHTML(item.articlePreviewContent), ContentMax)
    IN  IF content = <<>> THEN item.articleTitle ELSE content

articleNotification(seen, item) ==
    Notification(articleNotificationID(item, hasNewReply(seen, item)),
                 IF hasNewReply(seen, item)
                 THEN <<ReplyMarker>> \o item.articleTitle
                 ELSE item.articleTitle,
                 articleContent(item),
                 articleLink(item.oId),
                 "ld246",
                 timeValueOf(item))

\* newNotifications after the comparison loop
RECURSIVE compareArticles(_, _)
compareArticles(seen, articles) ==
    IF articles = <<>> THEN <<>>
    ELSE IF isNew(seen, Head(articles))
    THEN <<articleNotification(seen, Head(articles))>> \o compareArticles(seen, Tail(articles))
    ELSE compareArticles(seen, Tail(articles))

\* updatedArticles after the comparison loop: a later entry overwrites an earlier
updatedArticles(seen, articles) ==
    LET news == {i \in DOMAIN articles : isNew(seen, articles[i])}
    IN  [id \in {articles[i].oId : i \in news} |->
            stateOf(articles[CHOOSE i \in news :
                                /\ articles[i].oId = id
                                /\ \A j \in news : articles[j].oId = id => j <= i])]

\* an update that never forgets an article
updateSeenArticlesKeepsAll(seen, updated, articles) ==
    [id \in (DOMAIN seen \cup DOMAIN updated) \cup listedIDs(articles) |->
        IF id \in listedIDs(articles)
        THEN stateOf(articles[CHOOSE i \in DOMAIN articles : articles[i].oId = id])
        ELSE seen[id]]

\* m.seenArticles after the three loops of the write-locked section
updateSeenArticles(seen, updated, articles) ==
    LET merged == [id \in DOMAIN seen \cup DOMAIN updated |->
                      IF id \in DOMAIN updated THEN updated[id] ELSE seen[id]]
        lastOf(id) == CHOOSE i \in DOMAIN articles :
                         /\ articles[i].oId = id
                         /\ \A j \in DOMAIN articles : articles[j].oId = id => j <= i
        synced == [id \in DOMAIN merged \cup listedIDs(articles) |->
                      IF id \in listedIDs(articles) /\ id \notin DOMAIN updated
                      THEN stateOf(articles[lastOf(id)])
                      ELSE merged[id]]
    IN  [id \in listedIDs(articles) |-> synced[id]]

\* strconv.Atoi of a string of digits
RECURSIVE Atoi(_)
Atoi(s) ==
    IF s = <<>> THEN 0
    ELSE Atoi(SubSeq(s, 1, Len(s) - 1)) * 10
           + (CHOOSE d \in 0..9 : Itoa(d) = <<s[Len(s)]>>)

\* saveSeenArticles: json.MarshalIndent of the map
saveSeenArticles(seen) ==
    [kind |-> "json",
     articles |-> [id \in DOMAIN seen |->
                     [lastUpdateTime |-> Itoa(seen[id].lastUpdateTime),
                      commentCount |-> Itoa(seen[id].commentCount)]]]

\* loadSeenArticles: an empty map unless the file parses
loadSeenArticles(file) ==
    IF file.kind # "json" THEN NoArticles
    ELSE [id \in DOMAIN file.articles |->
             [lastUpdateTime |-> Atoi(file.articles[id].lastUpdateTime),
              commentCount |-> Atoi(file.articles[id].commentCount)]]

InitialSeenFiles ==
    {SeenFileMissing,
     [kind |-> "corrupt", articles |-> NoArticles],
     saveSeenArticles([id \in {Itoa(1)} |-> stateOf(ArticleItem(1, 0, 0))])}

\* NewLd246Monitor inside a running scheduler
InitLd ==
    /\ running = TRUE
    /\ ghToken = <<>>
    /\ lastModified = 0
    /\ notifFile = FileMissing
    /\ recentNotifications = <<>>
    /\ startedEmpty = TRUE
    /\ notifiedIDs = {}
    /\ pc = [t \in Threads |-> "off"]
    /\ stage = [t \in Threads |-> "none"]
    /\ batch = [t \in Threads |-> <<>>]
    /\ idx = [t \in Threads |-> 0]
    /\ err = [t \in Threads |-> "none"]
    /\ batchErr = [t \in Threads |-> "none"]
    /\ toSave = [t \in Threads |-> <<>>]
    /\ sinkOK = [id \in NoteIDs |-> 0]
    /\ ticks = 0
    /\ seenFile \in InitialSeenFiles
    /\ seenArticles = loadSeenArticles(seenFile)
    /\ ldPc = [t \in LdThreads |-> "idle"]
    /\ ldListing = [t \in LdThreads |-> <<>>]
    /\ ldNew = [t \in LdThreads |-> <<>>]
    /\ ldUpdated = [t \in LdThreads |-> NoArticles]
    /\ ldOverlap = [t \in LdThreads |-> FALSE]
    /\ lastFetch = NoFetch
    /\ fetches = 0
    /\ GhQuiet
    /\ StopIdle
    /\ RunIdle
    /\ LockIdle
    /\ ReqIdle
    /\ MsgIdle

schedVars == <<running, ghToken, lastModified, recentNotifications, notifFile, notifiedIDs,
               pc, stage, batch, idx, err, batchErr, toSave, sinkOK, ticks, startedEmpty>>

\* FetchRecentReplies returns an error before it reads m.seenArticles: the
\* request fails, the status is not 200, the body does not parse or code # 0
FetchRecentRepliesFailed(t) ==
    /\ ldPc[t] = "idle"
    /\ UNCHANGED ldVars
    /\ UNCHANGED auxVars
    /\ UNCHANGED schedVars
    /\ UNCHANGED auxVars

\* FetchRecentReplies up to RUnlock: the response and the comparison
FetchRecentReplies(t) ==
    /\ ldPc[t] = "idle"
    /\ fetches < MaxFetches
    /\ fetches' = fetches + 1
    /\ \E articles \in ReplyListings :
          /\ ldListing' = [ldListing EXCEPT ![t] = articles]
          /\ ldNew' = [ldNew EXCEPT ![t] = compareArticles(seenArticles, articles)]
          /\ ldUpdated' = [ldUpdated EXCEPT ![t] = updatedArticles(seenArticles, articles)]
    /\ ldPc' = [ldPc EXCEPT ![t] = "update"]
    /\ ldOverlap' = [u \in LdThreads |->
                        IF u = t THEN \E v \in LdThreads \ {t} : ldPc[v] # "idle"
                        ELSE ldOverlap[u] \/ ldPc[u] # "idle"]
    /\ UNCHANGED <<seenArticles, seenFile, lastFetch>>
    /\ UNCHANGED schedVars
    /\ UNCHANGED auxVars

\* FetchRecentReplies from Lock to Unlock
UpdateSeenArticles(t) ==
    /\ ldPc[t] = "update"
    /\ seenArticles' = updateSeenArticles(seenArticles, ldUpdated[t], ldListing[t])
    /\ ldPc' = [ldPc EXCEPT ![t] = "save"]
    /\ UNCHANGED <<seenFile, ldListing, ldNew, ldUpdated, ldOverlap, lastFetch, fetches>>
    /\ UNCHANGED schedVars
    /\ UNCHANGED auxVars

\* m.saveSeenArticles() and the return of newNotifications
SaveSeenArticles(t) ==
    /\ ldPc[t] = "save"
    /\ \E written \in BOOLEAN :
          seenFile' = IF written THEN saveSeenArticles(seenArticles) ELSE seenFile
    /\ lastFetch' = IF ldOverlap[t] THEN NoFetch
                    ELSE [listing |-> ldListing[t], clean |-> TRUE, notes |-> ldNew[t]]
    /\ ldPc' = [ldPc EXCEPT ![t] = "idle"]
    /\ ldListing' = [ldListing EXCEPT ![t] = <<>>]
    /\ ldNew' = [ldNew EXCEPT ![t] = <<>>]
    /\ ldUpdated' = [ldUpdated EXCEPT ![t] = NoArticles]
    /\ ldOverlap' = [ldOverlap EXCEPT ![t] = FALSE]
    /\ UNCHANGED <<seenArticles, fetches>>
    /\ UNCHANGED schedVars
    /\ UNCHANGED auxVars

NextLd ==
    \/ \E t \in LdThreads : FetchRecentRepliesFailed(t)
    \/ \E t \in LdThreads : FetchRecentReplies(t)
    \/ \E t \in LdThreads : UpdateSeenArticles(t)
    \/ \E t \in LdThreads : SaveSeenArticles(t)

SpecLd == InitLd /\ [][NextLd]_vars

\* ------------------------------------------- GitHub monitor, call by call
\* the Last-Modified values of the server in SpecGh: one more than in Spec, so
\* that a cursor that is set can still move forward
GhCallStamps == 0..(MaxStamp + 1)

\* NewGitHubMonitor: the cursor is the zero time
InitGh ==
    /\ running = FALSE
    /\ ghToken \in {<<>>, <<"t">>}
    /\ lastModified = 0
    /\ notifFile = FileMissing
    /\ recentNotifications = <<>>
    /\ startedEmpty = TRUE
    /\ notifiedIDs = {}
    /\ pc = [t \in Threads |-> "off"]
    /\ stage = [t \in Threads |-> "none"]
    /\ batch = [t \in Threads |-> <<>>]
    /\ idx = [t \in Threads |-> 0]
    /\ err = [t \in Threads |-> "none"]
    /\ batchErr = [t \in Threads |-> "none"]
    /\ toSave = [t \in Threads |-> <<>>]
    /\ sinkOK = [id \in NoteIDs |-> 0]
    /\ ticks = 0
    /\ LdIdle
    /\ GhQuiet
    /\ StopIdle
    /\ RunIdle
    /\ LockIdle
    /\ ReqIdle
    /\ MsgIdle

\* one call of FetchNotificationsSince(time.Time{}), start to return
FetchNotificationsSinceCall ==
    \E r \in GhResponses(GhCallStamps) :
        LET out == fetchNotificationsSince(ghToken, lastModified, r)
        IN  /\ ghCall' = [made |-> TRUE, token |-> ghToken, before |-> lastModified,
                          response |-> r]
            /\ ghReturn' = [made |-> TRUE, requested |-> out.requested,
                            notes |-> out.notes, err |-> out.err, after |-> out.cursor]
            /\ lastModified' = out.cursor
            /\ UNCHANGED <<running, ghToken, recentNotifications, notifFile, notifiedIDs,
                           pc, stage, batch, idx, err, batchErr, toSave, sinkOK, ticks,
                           startedEmpty>>
            /\ UNCHANGED ldVars
            /\ UNCHANGED <<stopVars, msgVars, runVars, lockVars, reqVars>>

NextGh == FetchNotificationsSinceCall

SpecGh == InitGh /\ [][NextGh]_vars

\* -------------------------------------------------------------------- Stop
\* NewScheduler with a GitHub token and no notification file
InitStop ==
    /\ running = FALSE
    /\ ghToken = <<"t">>
    /\ lastModified = 0
    /\ notifFile = FileMissing
    /\ recentNotifications = <<>>
    /\ startedEmpty = TRUE
    /\ notifiedIDs = {}
    /\ pc = [t \in Threads |-> "off"]
    /\ stage = [t \in Threads |-> "none"]
    /\ batch = [t \in Threads |-> <<>>]
    /\ idx = [t \in Threads |-> 0]
    /\ err = [t \in Threads |-> "none"]
    /\ batchErr = [t \in Threads |-> "none"]
    /\ toSave = [t \in Threads |-> <<>>]
    /\ sinkOK = [id \in NoteIDs |-> 0]
    /\ ticks = 0
    /\ LdIdle
    /\ GhQuiet
    /\ StopIdle
    /\ RunIdle
    /\ LockIdle
    /\ ReqIdle
    /\ MsgIdle

\* Start while the context has not been cancelled
StartFresh == ~cancelled /\ Start

\* Stop up to the select: returns at once when the scheduler is not running,
\* else clears running, cancels the context and waits
Stop ==
    /\ stopPc # "waiting"
    /\ IF ~running
       THEN /\ stopPc' = "returned"
            /\ UNCHANGED <<running, cancelled>>
       ELSE /\ running' = FALSE
            /\ cancelled' = TRUE
            /\ stopPc' = "waiting"
    /\ UNCHANGED <<ghToken, lastModified, recentNotifications, notifFile, notifiedIDs,
                   pc, stage, batch, idx, err, batchErr, toSave, sinkOK, ticks,
                   startedEmpty>>
    /\ UNCHANGED <<ldVars, ghVars, msgVars, runVars, lockVars, reqVars>>

\* case <-s.ctx.Done() of a polling loop: the loop returns, wg.Done()
LoopExit(t) ==
    /\ t \in Loops
    /\ pc[t] = "wait"
    /\ cancelled
    /\ pc' = [pc EXCEPT ![t] = "off"]
    /\ UNCHANGED <<running, ghToken, lastModified, recentNotifications, notifFile,
                   notifiedIDs, stage, batch, idx, err, batchErr, toSave, sinkOK, ticks,
                   startedEmpty>>
    /\ UNCHANGED <<ldVars, auxVars>>

\* Stop, case <-done: wg.Wait() has returned because both loops have
StopDone ==
    /\ stopPc = "waiting"
    /\ \A t \in Loops : pc[t] = "off"
    /\ stopPc' = "returned"
    /\ UNCHANGED <<schedVars, ldVars, ghVars, msgVars, runVars, lockVars, reqVars, cancelled>>

\* a Stop that has no timer to fall back on
StopTimeoutNever ==
    /\ stopPc = "waiting"
    /\ UNCHANGED vars

\* Stop, case <-time.After(3 * time.Second)
StopTimeout ==
    /\ stopPc = "waiting"
    /\ stopPc' = "returned"
    /\ UNCHANGED <<schedVars, ldVars, ghVars, msgVars, runVars, lockVars, reqVars, cancelled>>

NextStop ==
    \/ StartFresh
    \/ Stop
    \/ StopDone
    \/ StopTimeout
    \/ \E t \in Threads : LoopExit(t)
    \/ \E t \in Threads : Tick(t)
    \/ \E t \in Threads : CheckLd246Down(t)
    \/ \E t \in Threads : FetchNotificationsSince(t)
    \/ \E t \in Threads : NotifyCheck(t)
    \/ \E t \in Threads : NotifyPush(t)
    \/ \E t \in Threads : NotifyMark(t)
    \/ \E t \in Threads : AddMerge(t)
    \/ \E t \in Threads : AddSave(t)

\* the runtime fires the timer of time.After and schedules the caller of
\* Stop; nothing is assumed about the loops or their fetches
SpecStop == InitStop /\ [][NextStop]_vars /\ WF_vars(StopTimeout)

\* ------------------------------------------- ld246 messages, check by check
InitialMsgFiles ==
    {MsgFileMissing,
     saveSeenMessages({messageKey(typeOf(1), ServerMessage(1, FALSE))})}

\* NewScheduler without a GitHub token, before Start
InitMsg ==
    /\ running = FALSE
    /\ ghToken = <<>>
    /\ lastModified = 0
    /\ notifFile = FileMissing
    /\ recentNotifications = <<>>
    /\ startedEmpty = TRUE
    /\ notifiedIDs = {}
    /\ pc = [t \in Threads |-> "off"]
    /\ stage = [t \in Threads |-> "none"]
    /\ batch = [t \in Threads |-> <<>>]
    /\ idx = [t \in Threads |-> 0]
    /\ err = [t \in Threads |-> "none"]
    /\ batchErr = [t \in Threads |-> "none"]
    /\ toSave = [t \in Threads |-> <<>>]
    /\ sinkOK = [id \in NoteIDs |-> 0]
    /\ ticks = 0
    /\ LdIdle
    /\ GhQuiet
    /\ StopIdle
    /\ RunIdle
    /\ LockIdle
    /\ ReqIdle
    /\ inbox = [k \in 1..MaxMsgs |-> "absent"]
    /\ chatUnread = 0
    /\ monitorGen = 0
    /\ seenMsgFile \in InitialMsgFiles
    /\ seenMessages = [g \in 0..MaxConfigs |->
                          IF g = 0 THEN loadSeenMessages(seenMsgFile) ELSE {}]
    /\ msgMon = [t \in LdThreads |-> 0]
    /\ msgTodo = [t \in LdThreads |-> <<>>]
    /\ msgListing = [t \in LdThreads |-> NoListing]
    /\ msgNewIDs = [t \in LdThreads |-> {}]
    /\ msgOut = [t \in LdThreads |-> <<>>]
    /\ msgChat = [t \in LdThreads |-> 0]
    /\ chatLog = <<>>
    /\ checks = 0

\* the site: somebody writes message k to the user
MessageArrives(k) ==
    /\ inbox[k] = "absent"
    /\ inbox' = [inbox EXCEPT ![k] = "unread"]
    /\ UNCHANGED <<schedVars, ldVars, ghVars, stopVars, runVars, lockVars, reqVars>>
    /\ UNCHANGED <<chatUnread, monitorGen, seenMessages, seenMsgFile, msgMon, msgTodo,
                   msgListing, msgNewIDs, msgOut, msgChat, chatLog, checks>>

\* the site: the user opens message k in the browser
MessageRead(k) ==
    /\ inbox[k] = "unread"
    /\ inbox' = [inbox EXCEPT ![k] = "read"]
    /\ UNCHANGED <<schedVars, ldVars, ghVars, stopVars, runVars, lockVars, reqVars>>
    /\ UNCHANGED <<chatUnread, monitorGen, seenMessages, seenMsgFile, msgMon, msgTodo,
                   msgListing, msgNewIDs, msgOut, msgChat, chatLog, checks>>

\* the site: chat messages arrive or are read
ChatChanges(c) ==
    /\ c # chatUnread
    /\ chatUnread' = c
    /\ UNCHANGED <<schedVars, ldVars, ghVars, stopVars, runVars, lockVars, reqVars>>
    /\ UNCHANGED <<inbox, monitorGen, seenMessages, seenMsgFile, msgMon, msgTodo,
                   msgListing, msgNewIDs, msgOut, msgChat, chatLog, checks>>

\* an UpdateConfig that also builds a new notifier
UpdateConfigNewNotifier ==
    /\ monitorGen < MaxConfigs
    /\ monitorGen' = monitorGen + 1
    /\ seenMessages' = [seenMessages EXCEPT ![monitorGen + 1] = loadSeenMessages(seenMsgFile)]
    /\ seenArticles' = loadSeenArticles(seenFile)
    /\ lastModified' = 0
    /\ notifiedIDs' = {}
    /\ UNCHANGED <<running, ghToken, recentNotifications, notifFile,
                   pc, stage, batch, idx, err, batchErr, toSave, sinkOK, ticks,
                   startedEmpty>>
    /\ UNCHANGED <<seenFile, ldPc, ldListing, ldNew, ldUpdated, ldOverlap, lastFetch,
                   fetches>>
    /\ UNCHANGED <<ghVars, stopVars, runVars, lockVars, reqVars>>
    /\ UNCHANGED <<inbox, chatUnread, seenMsgFile, msgMon, msgTodo, msgListing,
                   msgNewIDs, msgOut, msgChat, chatLog, checks>>

\* UpdateConfig with the tokens of the old configuration: both monitors are
\* built anew, the ld246 one from its two state files
UpdateConfig ==
    /\ monitorGen < MaxConfigs
    /\ monitorGen' = monitorGen + 1
    /\ seenMessages' = [seenMessages EXCEPT ![monitorGen + 1] = loadSeenMessages(seenMsgFile)]
    /\ seenArticles' = loadSeenArticles(seenFile)
    /\ lastModified' = 0
    /\ UNCHANGED <<running, ghToken, recentNotifications, notifFile, notifiedIDs,
                   pc, stage, batch, idx, err, batchErr, toSave, sinkOK, ticks,
                   startedEmpty>>
    /\ UNCHANGED <<seenFile, ldPc, ldListing, ldNew, ldUpdated, ldOverlap, lastFetch,
                   fetches>>
    /\ UNCHANGED <<ghVars, stopVars, runVars, lockVars, reqVars>>
    /\ UNCHANGED <<inbox, chatUnread, seenMsgFile, msgMon, msgTodo, msgListing,
                   msgNewIDs, msgOut, msgChat, chatLog, checks>>

\* case <-ticker.C of runLd246Monitor
TickerLd246(t) ==
    /\ t = "ldLoop"
    /\ pc[t] = "wait"
    /\ checks < MaxChecks
    /\ pc' = [pc EXCEPT ![t] = FirstStep(t)]
    /\ UNCHANGED <<running, ghToken, lastModified, recentNotifications, notifFile,
                   notifiedIDs, stage, batch, idx, err, batchErr, toSave, sinkOK, ticks,
                   startedEmpty>>
    /\ UNCHANGED ldVars
    /\ UNCHANGED auxVars

\* checkLd246, first half: FetchRecentReplies returns an error or nothing new
RecentRepliesNone(t) ==
    /\ pc[t] = "ld_check"
    /\ pc' = [pc EXCEPT ![t] = "msg_count"]
    /\ UNCHANGED <<running, ghToken, lastModified, recentNotifications, notifFile,
                   notifiedIDs, stage, batch, idx, err, batchErr, toSave, sinkOK, ticks,
                   startedEmpty>>
    /\ UNCHANGED ldVars
    /\ UNCHANGED auxVars

\* the chat toasts so far, per count
chatToasts == [c \in 1..MaxChat |-> sinkOK[chatID(c)]]

\* the chatLog entry of a check whose count request failed
NoCount == 0 - 1

\* where FetchUnreadMessages goes when todo is what remains to fetch
afterType(todo) == IF todo = <<>> THEN "msg_chat" ELSE "msg_type"

\* FetchUnreadMessages up to the first category: the count request, its
\* error returns and the return on a total of zero
FetchUnreadCount(t) ==
    /\ pc[t] = "msg_count"
    /\ checks' = checks + 1
    /\ msgMon' = [msgMon EXCEPT ![t] = monitorGen]
    /\ \E ok \in BOOLEAN :
          LET resp == countResponse(inbox, chatUnread)
          IN  IF ~ok
              THEN /\ chatLog' = Append(chatLog, [count |-> NoCount, before |-> chatToasts])
                   /\ pc' = [pc EXCEPT ![t] = Continue(t, "ld246")]
                   /\ UNCHANGED <<msgTodo, msgChat>>
              ELSE /\ chatLog' = Append(chatLog, [count |-> resp.chat, before |-> chatToasts])
                   /\ IF resp.total = 0
                      THEN /\ pc' = [pc EXCEPT ![t] = Continue(t, "ld246")]
                           /\ UNCHANGED <<msgTodo, msgChat>>
                      ELSE /\ msgTodo' = [msgTodo EXCEPT ![t] = typesToFetch(resp)]
                           /\ msgChat' = [msgChat EXCEPT ![t] = resp.chat]
                           /\ pc' = [pc EXCEPT ![t] = afterType(typesToFetch(resp))]
    /\ UNCHANGED <<running, ghToken, lastModified, recentNotifications, notifFile,
                   notifiedIDs, stage, batch, idx, err, batchErr, toSave, sinkOK, ticks,
                   startedEmpty>>
    /\ UNCHANGED <<ldVars, ghVars, stopVars, runVars, lockVars, reqVars>>
    /\ UNCHANGED <<inbox, chatUnread, monitorGen, seenMessages, seenMsgFile, msgListing,
                   msgNewIDs, msgOut>>

\* a FetchUnreadMessages that returns the error of a category at once, without
\* the messages it has collected and without the chat notification
FetchNotificationsByTypeReturns(t) ==
    /\ pc[t] = "msg_type"
    /\ \E ok \in BOOLEAN :
          LET ty == Head(msgTodo[t])
              items == inboxListing(inbox, ty, Len(inbox))
              seen == seenMessages[msgMon[t]]
          IN  IF ~ok
              THEN /\ msgTodo' = [msgTodo EXCEPT ![t] = <<>>]
                   /\ msgOut' = [msgOut EXCEPT ![t] = <<>>]
                   /\ msgChat' = [msgChat EXCEPT ![t] = 0]
                   /\ pc' = [pc EXCEPT ![t] = Continue(t, "ld246")]
                   /\ UNCHANGED <<msgListing, msgNewIDs>>
              ELSE /\ msgListing' = [msgListing EXCEPT ![t] = [ty |-> ty, items |-> items]]
                   /\ msgNewIDs' = [msgNewIDs EXCEPT ![t] = newMessageIDs(seen, ty, items)]
                   /\ msgOut' = [msgOut EXCEPT ![t] = @ \o messageNotes(seen, ty, items)]
                   /\ UNCHANGED msgChat
                   /\ IF newMessageIDs(seen, ty, items) = {}
                      THEN /\ msgTodo' = [msgTodo EXCEPT ![t] = Tail(@)]
                           /\ pc' = [pc EXCEPT ![t] = afterType(Tail(msgTodo[t]))]
                      ELSE /\ pc' = [pc EXCEPT ![t] = "msg_mark"]
                           /\ UNCHANGED msgTodo
    /\ UNCHANGED <<running, ghToken, lastModified, recentNotifications, notifFile,
                   notifiedIDs, stage, batch, idx, err, batchErr, toSave, sinkOK, ticks,
                   startedEmpty>>
    /\ UNCHANGED <<ldVars, ghVars, stopVars, runVars, lockVars, reqVars>>
    /\ UNCHANGED <<inbox, chatUnread, monitorGen, seenMessages, seenMsgFile, msgMon,
                   chatLog, checks>>

\* fetchNotificationsByType up to the end of the comparison loop; an error
\* return is logged by FetchUnreadMessages, which goes on to the next category
FetchNotificationsByType(t) ==
    /\ pc[t] = "msg_type"
    /\ \E ok \in BOOLEAN :
          LET ty == Head(msgTodo[t])
              items == inboxListing(inbox, ty, Len(inbox))
              seen == seenMessages[msgMon[t]]
          IN  IF ~ok
              THEN /\ msgTodo' = [msgTodo EXCEPT ![t] = Tail(@)]
                   /\ pc' = [pc EXCEPT ![t] = afterType(Tail(msgTodo[t]))]
                   /\ UNCHANGED <<msgListing, msgNewIDs, msgOut>>
              ELSE /\ msgListing' = [msgListing EXCEPT ![t] = [ty |-> ty, items |-> items]]
                   /\ msgNewIDs' = [msgNewIDs EXCEPT ![t] = newMessageIDs(seen, ty, items)]
                   /\ msgOut' = [msgOut EXCEPT ![t] = @ \o messageNotes(seen, ty, items)]
                   /\ IF newMessageIDs(seen, ty, items) = {}
                      THEN /\ msgTodo' = [msgTodo EXCEPT ![t] = Tail(@)]
                           /\ pc' = [pc EXCEPT ![t] = afterType(Tail(msgTodo[t]))]
                      ELSE /\ pc' = [pc EXCEPT ![t] = "msg_mark"]
                           /\ UNCHANGED msgTodo
    /\ UNCHANGED <<running, ghToken, lastModified, recentNotifications, notifFile,
                   notifiedIDs, stage, batch, idx, err, batchErr, toSave, sinkOK, ticks,
                   startedEmpty>>
    /\ UNCHANGED <<ldVars, ghVars, stopVars, runVars, lockVars, reqVars>>
    /\ UNCHANGED <<inbox, chatUnread, monitorGen, seenMessages, seenMsgFile, msgMon,
                   msgChat, chatLog, checks>>

\* fetchNotificationsByType: the new keys go into m.seenMessages under the lock
MarkSeenMessages(t) ==
    /\ pc[t] = "msg_mark"
    /\ seenMessages' = [seenMessages EXCEPT ![msgMon[t]] = @ \cup msgNewIDs[t]]
    /\ pc' = [pc EXCEPT ![t] = "msg_save"]
    /\ UNCHANGED <<running, ghToken, lastModified, recentNotifications, notifFile,
                   notifiedIDs, stage, batch, idx, err, batchErr, toSave, sinkOK, ticks,
                   startedEmpty>>
    /\ UNCHANGED <<ldVars, ghVars, stopVars, runVars, lockVars, reqVars>>
    /\ UNCHANGED <<inbox, chatUnread, monitorGen, seenMsgFile, msgMon, msgTodo,
                   msgListing, msgNewIDs, msgOut, msgChat, chatLog, checks>>

\* fetchNotificationsByType: saveSeenMessages (a failed write is logged) and
\* the return to FetchUnreadMessages
SaveSeenMessages(t) ==
    /\ pc[t] = "msg_save"
    /\ \E written \in BOOLEAN :
          seenMsgFile' = IF written THEN saveSeenMessages(seenMessages[msgMon[t]])
                         ELSE seenMsgFile
    /\ msgNewIDs' = [msgNewIDs EXCEPT ![t] = {}]
    /\ msgTodo' = [msgTodo EXCEPT ![t] = Tail(@)]
    /\ pc' = [pc EXCEPT ![t] = afterType(Tail(msgTodo[t]))]
    /\ UNCHANGED <<running, ghToken, lastModified, recentNotifications, notifFile,
                   notifiedIDs, stage, batch, idx, err, batchErr, toSave, sinkOK, ticks,
                   startedEmpty>>
    /\ UNCHANGED <<ldVars, ghVars, stopVars, runVars, lockVars, reqVars>>
    /\ UNCHANGED <<inbox, chatUnread, monitorGen, seenMessages, msgMon, msgListing,
                   msgOut, msgChat, chatLog, checks>>

\* what FetchUnreadMessages returns: the new messages, then the chat
\* notification when the chat count is positive
unreadMessages(notes, chat, now) ==
    IF chat > 0 THEN Append(notes, chatNotification(chat, now)) ELSE notes

\* FetchUnreadMessages from the chat notification to its return, and the
\* branch of checkLd246 on the result
FetchUnreadMessagesReturn(t) ==
    /\ pc[t] = "msg_chat"
    /\ LET messages == unreadMessages(msgOut[t], msgChat[t], checks)
       IN  IF Len(messages) > 0
           THEN /\ batch' = [batch EXCEPT ![t] = messages]
                /\ stage' = [stage EXCEPT ![t] = "ld246"]
                /\ idx' = [idx EXCEPT ![t] = 1]
                /\ pc' = [pc EXCEPT ![t] = "n_check"]
           ELSE /\ pc' = [pc EXCEPT ![t] = Continue(t, "ld246")]
                /\ UNCHANGED <<batch, stage, idx>>
    /\ msgOut' = [msgOut EXCEPT ![t] = <<>>]
    /\ msgChat' = [msgChat EXCEPT ![t] = 0]
    /\ msgListing' = [msgListing EXCEPT ![t] = NoListing]
    /\ UNCHANGED <<running, ghToken, lastModified, recentNotifications, notifFile,
                   notifiedIDs, err, batchErr, toSave, sinkOK, ticks, startedEmpty>>
    /\ UNCHANGED <<ldVars, ghVars, stopVars, runVars, lockVars, reqVars>>
    /\ UNCHANGED <<inbox, chatUnread, monitorGen, seenMessages, seenMsgFile, msgMon,
                   msgTodo, msgNewIDs, chatLog, checks>>

\* Notify with a sink that works: notificationToast.Push() returns nil
Toast(t) == NotifyPush(t) /\ sinkOK' # sinkOK

NextMsg ==
    \/ Start
    \/ UpdateConfig
    \/ \E k \in 1..MaxMsgs : MessageArrives(k)
    \/ \E k \in 1..MaxMsgs : MessageRead(k)
    \/ \E c \in 0..MaxChat : ChatChanges(c)
    \/ \E t \in Loops : TickerLd246(t)
    \/ \E t \in Loops : RecentRepliesNone(t)
    \/ \E t \in Loops : FetchUnreadCount(t)
    \/ \E t \in Loops : FetchNotificationsByType(t)
    \/ \E t \in Loops : MarkSeenMessages(t)
    \/ \E t \in Loops : SaveSeenMessages(t)
    \/ \E t \in Loops : FetchUnreadMessagesReturn(t)
    \/ \E t \in Loops : FetchNotificationsSince(t)
    \/ \E t \in Loops : NotifyCheck(t)
    \/ \E t \in Loops : Toast(t)
    \/ \E t \in Loops : NotifyMark(t)
    \/ \E t \in Loops : AddMerge(t)
    \/ \E t \in Loops : AddSave(t)

SpecMsg == InitMsg /\ [][NextMsg]_vars

\* ----------------------------------------------- Start, Stop, TriggerCheck
MaxStarts == 2       \* Start calls that find the scheduler stopped

InitRun == InitStop

\* Start up to the unlock: a no-op when running, else the flag is set
StartCall(c) ==
    /\ callPc[c] = "idle"
    /\ running \/ starts < MaxStarts
    /\ lastCall' = [op |-> "Start", wasRunning |-> running]
    /\ IF running
       THEN UNCHANGED <<running, callPc, starts>>
       ELSE /\ running' = TRUE
            /\ callPc' = [callPc EXCEPT ![c] = "spawn"]
            /\ starts' = starts + 1
    /\ UNCHANGED <<ghToken, lastModified, recentNotifications, notifFile, notifiedIDs,
                   pc, stage, batch, idx, err, batchErr, toSave, sinkOK, ticks,
                   startedEmpty>>
    /\ UNCHANGED <<ldVars, ghVars, stopVars, msgVars, lockVars, reqVars, loopsAlive>>

\* Start after the unlock: wg.Add(1) and go, once per source
StartSpawn(c) ==
    /\ callPc[c] = "spawn"
    /\ loopsAlive' = [src \in Sources |-> loopsAlive[src] + 1]
    /\ callPc' = [callPc EXCEPT ![c] = "idle"]
    /\ UNCHANGED <<schedVars, ldVars, ghVars, stopVars, msgVars, lockVars, reqVars, lastCall, starts>>

\* a Stop that cancels and waits whatever the flag says
StopCallAlwaysCancels ==
    /\ stopPc # "waiting"
    /\ lastCall' = [op |-> "Stop", wasRunning |-> running]
    /\ running' = FALSE
    /\ cancelled' = TRUE
    /\ stopPc' = "waiting"
    /\ UNCHANGED <<ghToken, lastModified, recentNotifications, notifFile, notifiedIDs,
                   pc, stage, batch, idx, err, batchErr, toSave, sinkOK, ticks,
                   startedEmpty>>
    /\ UNCHANGED <<ldVars, ghVars, msgVars, lockVars, reqVars, loopsAlive, callPc, starts>>

\* Stop up to the select, by a caller whose earlier Stop, if any, has returned
StopCall ==
    /\ stopPc # "waiting"
    /\ lastCall' = [op |-> "Stop", wasRunning |-> running]
    /\ IF ~running
       THEN /\ stopPc' = "returned"
            /\ UNCHANGED <<running, cancelled>>
       ELSE /\ running' = FALSE
            /\ cancelled' = TRUE
            /\ stopPc' = "waiting"
    /\ UNCHANGED <<ghToken, lastModified, recentNotifications, notifFile, notifiedIDs,
                   pc, stage, batch, idx, err, batchErr, toSave, sinkOK, ticks,
                   startedEmpty>>
    /\ UNCHANGED <<ldVars, ghVars, msgVars, lockVars, reqVars, loopsAlive, callPc, starts>>

\* Stop, case <-done: wg.Wait() has returned, no polling loop is left
StopWaitDone ==
    /\ stopPc = "waiting"
    /\ \A src \in Sources : loopsAlive[src] = 0
    /\ stopPc' = "returned"
    /\ UNCHANGED <<schedVars, ldVars, ghVars, msgVars, runVars, lockVars, reqVars, cancelled>>

\* case <-s.ctx.Done() of a polling loop of the source, reached once the
\* check the loop may be in has returned
LoopReturns(src) ==
    /\ cancelled
    /\ loopsAlive[src] > 0
    /\ loopsAlive' = [loopsAlive EXCEPT ![src] = @ - 1]
    /\ UNCHANGED <<schedVars, ldVars, ghVars, stopVars, msgVars, lockVars, reqVars, callPc, lastCall, starts>>

\* a TriggerCheck that does not look at the flag
TriggerCheckCallAnyway ==
    /\ lastCall' = [op |-> "TriggerCheck", wasRunning |-> running]
    /\ pc["manual"] = "off"
    /\ ticks < MaxTicks
    /\ pc' = [pc EXCEPT !["manual"] = FirstStep("manual")]
    /\ ticks' = ticks + 1
    /\ UNCHANGED <<running, ghToken, lastModified, recentNotifications, notifFile,
                   notifiedIDs, stage, batch, idx, err, batchErr, toSave, sinkOK,
                   startedEmpty>>
    /\ UNCHANGED <<ldVars, ghVars, stopVars, msgVars, lockVars, reqVars, loopsAlive, callPc, starts>>

\* TriggerCheck: a warning when not running, else the goroutine that runs
\* checkLd246 and then checkGitHub
TriggerCheckCall ==
    /\ lastCall' = [op |-> "TriggerCheck", wasRunning |-> running]
    /\ IF ~running
       THEN UNCHANGED <<pc, ticks>>
       ELSE /\ pc["manual"] = "off"
            /\ ticks < MaxTicks
            /\ pc' = [pc EXCEPT !["manual"] = FirstStep("manual")]
            /\ ticks' = ticks + 1
    /\ UNCHANGED <<running, ghToken, lastModified, recentNotifications, notifFile,
                   notifiedIDs, stage, batch, idx, err, batchErr, toSave, sinkOK,
                   startedEmpty>>
    /\ UNCHANGED <<ldVars, ghVars, stopVars, msgVars, lockVars, reqVars, loopsAlive, callPc, starts>>

\* the control calls, the polling loops as goroutines that live and return,
\* and the goroutine of a manual check step by step
NextRun ==
    \/ \E c \in Callers : StartCall(c)
    \/ \E c \in Callers : StartSpawn(c)
    \/ StopCall
    \/ StopWaitDone
    \/ StopTimeout
    \/ \E src \in Sources : LoopReturns(src)
    \/ TriggerCheckCall
    \/ CheckLd246Down("manual")
    \/ FetchNotificationsSince("manual")
    \/ NotifyCheck("manual")
    \/ NotifyPush("manual")
    \/ NotifyMark("manual")
    \/ AddMerge("manual")
    \/ AddSave("manual")

SpecRun == InitRun /\ [][NextRun]_vars

\* the same calls and goroutines when the timer of Stop never gets to fire:
\* every Stop that waits returns through case <-done
NextDone ==
    \/ \E c \in Callers : StartCall(c)
    \/ \E c \in Callers : StartSpawn(c)
    \/ StopCall
    \/ StopWaitDone
    \/ \E src \in Sources : LoopReturns(src)
    \/ TriggerCheckCall
    \/ CheckLd246Down("manual")
    \/ FetchNotificationsSince("manual")
    \/ NotifyCheck("manual")
    \/ NotifyPush("manual")
    \/ NotifyMark("manual")
    \/ AddMerge("manual")
    \/ AddSave("manual")

SpecDone == InitRun /\ [][NextDone]_vars

\* ------------------------------------------------------------ NewScheduler
\* the files a scheduler can be constructed over
ConstructionFiles ==
    {FileMissing, FileCorrupt} \cup {StoredFile(n) : n \in 0..(Capacity + 2)}

\* the process before NewScheduler: the fields have their zero values
InitNew ==
    /\ running = FALSE
    /\ ghToken = <<"t">>
    /\ lastModified = 0
    /\ notifFile \in ConstructionFiles
    /\ recentNotifications = <<>>
    /\ startedEmpty = TRUE
    /\ notifiedIDs = {}
    /\ pc = [t \in Threads |-> "off"]
    /\ stage = [t \in Threads |-> "none"]
    /\ batch = [t \in Threads |-> <<>>]
    /\ idx = [t \in Threads |-> 0]
    /\ err = [t \in Threads |-> "none"]
    /\ batchErr = [t \in Threads |-> "none"]
    /\ toSave = [t \in Threads |-> <<>>]
    /\ sinkOK = [id \in NoteIDs |-> 0]
    /\ ticks = 0
    /\ LdIdle
    /\ GhQuiet
    /\ StopIdle
    /\ MsgIdle
    /\ RunIdle
    /\ LockIdle
    /\ ReqIdle

\* NewScheduler: the struct, then loadNotifications, whose error is logged
NewSchedulerCall ==
    /\ lastCall = NoControlCall
    /\ recentNotifications' = loadNotifications(notifFile).list
    /\ startedEmpty' = (loadNotifications(notifFile).list = <<>>)
    /\ running' = FALSE
    /\ lastCall' = [op |-> "NewScheduler", wasRunning |-> FALSE,
                    loadErr |-> loadNotifications(notifFile).err]
    /\ UNCHANGED <<ghToken, lastModified, notifFile, notifiedIDs, pc, stage, batch, idx,
                   err, batchErr, toSave, sinkOK, ticks>>
    /\ UNCHANGED <<ldVars, ghVars, stopVars, msgVars, lockVars, reqVars, loopsAlive, callPc, starts>>

\* Start on the scheduler that NewScheduler returned
StartBuilt(c) == lastCall # NoControlCall /\ StartCall(c)

NextNew ==
    \/ NewSchedulerCall
    \/ \E c \in Callers : StartBuilt(c)
    \/ \E c \in Callers : StartSpawn(c)

SpecNew == InitNew /\ [][NextNew]_vars

\* ------------------------------------------ addNotifications, writes succeed
InitAdd == InitStop

\* addNotifications whose saveNotificationsWithData returns nil
AddSaveWritten(t) == AddSave(t) /\ notifFile' = saveNotificationsWithData(toSave[t])

\* Spec with a file system that takes every write
NextAdd ==
    \/ Start
    \/ TriggerCheck
    \/ \E t \in Threads : Tick(t)
    \/ \E t \in Threads : CheckLd246Down(t)
    \/ \E t \in Threads : FetchNotificationsSince(t)
    \/ \E t \in Threads : NotifyCheck(t)
    \/ \E t \in Threads : NotifyPush(t)
    \/ \E t \in Threads : NotifyMark(t)
    \/ \E t \in Threads : AddMerge(t)
    \/ \E t \in Threads : AddSaveWritten(t)

SpecAdd == InitAdd /\ [][NextAdd]_vars

\* ------------------------------- checkLd246, a tick and a manual check at once
\* what the site answers to both checks: one article, one unread message
OverlapListing == <<ArticleItem(1, 0, 0)>>

OverlapInbox == [k \in 1..MaxMsgs |-> "unread"]

OverlapIDs == IDsOf(compareArticles(NoArticles, OverlapListing))

\* a fresh installation whose ld246 loop and whose manual goroutine both
\* enter checkLd246
InitOverlap ==
    /\ running = TRUE
    /\ ghToken = <<>>
    /\ lastModified = 0
    /\ notifFile = FileMissing
    /\ recentNotifications = <<>>
    /\ startedEmpty = TRUE
    /\ notifiedIDs = {}
    /\ pc = [t \in Threads |-> IF t = "ghLoop" THEN "wait" ELSE "ld_check"]
    /\ stage = [t \in Threads |-> "none"]
    /\ batch = [t \in Threads |-> <<>>]
    /\ idx = [t \in Threads |-> 0]
    /\ err = [t \in Threads |-> "none"]
    /\ batchErr = [t \in Threads |-> "none"]
    /\ toSave = [t \in Threads |-> <<>>]
    /\ sinkOK = [id \in NoteIDs \cup OverlapIDs |-> 0]
    /\ ticks = 1
    /\ LdIdle
    /\ GhQuiet
    /\ StopIdle
    /\ RunIdle
    /\ LockIdle
    /\ ReqIdle
    /\ inbox = OverlapInbox
    /\ chatUnread = 0
    /\ monitorGen = 0
    /\ seenMessages = [g \in 0..MaxConfigs |-> {}]
    /\ seenMsgFile = MsgFileMissing
    /\ msgMon = [t \in LdThreads |-> 0]
    /\ msgTodo = [t \in LdThreads |-> <<>>]
    /\ msgListing = [t \in LdThreads |-> NoListing]
    /\ msgNewIDs = [t \in LdThreads |-> {}]
    /\ msgOut = [t \in LdThreads |-> <<>>]
    /\ msgChat = [t \in LdThreads |-> 0]
    /\ chatLog = <<>>
    /\ checks = 0

\* FetchRecentReplies up to RUnlock, the site answering with articles
RepliesCompare(t, articles) ==
    /\ pc[t] = "ld_check"
    /\ ldListing' = [ldListing EXCEPT ![t] = articles]
    /\ ldNew' = [ldNew EXCEPT ![t] = compareArticles(seenArticles, articles)]
    /\ ldUpdated' = [ldUpdated EXCEPT ![t] = updatedArticles(seenArticles, articles)]
    /\ pc' = [pc EXCEPT ![t] = "ld_update"]
    /\ UNCHANGED <<running, ghToken, lastModified, recentNotifications, notifFile,
                   notifiedIDs, stage, batch, idx, err, batchErr, toSave, sinkOK, ticks,
                   startedEmpty>>
    /\ UNCHANGED <<seenArticles, seenFile, ldPc, ldOverlap, lastFetch, fetches>>
    /\ UNCHANGED auxVars

\* FetchRecentReplies from Lock to Unlock
RepliesUpdate(t) ==
    /\ pc[t] = "ld_update"
    /\ seenArticles' = updateSeenArticles(seenArticles, ldUpdated[t], ldListing[t])
    /\ pc' = [pc EXCEPT ![t] = "ld_save"]
    /\ UNCHANGED <<running, ghToken, lastModified, recentNotifications, notifFile,
                   notifiedIDs, stage, batch, idx, err, batchErr, toSave, sinkOK, ticks,
                   startedEmpty>>
    /\ UNCHANGED <<seenFile, ldPc, ldListing, ldNew, ldUpdated, ldOverlap, lastFetch,
                   fetches>>
    /\ UNCHANGED auxVars

\* saveSeenArticles (a failed write is logged), the return of
\* FetchRecentReplies and the branch of checkLd246 on the result
RepliesSave(t) ==
    /\ pc[t] = "ld_save"
    /\ \E written \in BOOLEAN :
          seenFile' = IF written THEN saveSeenArticles(seenArticles) ELSE seenFile
    /\ IF Len(ldNew[t]) > 0
       THEN /\ batch' = [batch EXCEPT ![t] = ldNew[t]]
            /\ stage' = [stage EXCEPT ![t] = "replies"]
            /\ idx' = [idx EXCEPT ![t] = 1]
            /\ pc' = [pc EXCEPT ![t] = "n_check"]
       ELSE /\ pc' = [pc EXCEPT ![t] = "msg_count"]
            /\ UNCHANGED <<batch, stage, idx>>
    /\ ldListing' = [ldListing EXCEPT ![t] = <<>>]
    /\ ldNew' = [ldNew EXCEPT ![t] = <<>>]
    /\ ldUpdated' = [ldUpdated EXCEPT ![t] = NoArticles]
    /\ UNCHANGED <<running, ghToken, lastModified, recentNotifications, notifFile,
                   notifiedIDs, err, batchErr, toSave, sinkOK, ticks, startedEmpty>>
    /\ UNCHANGED <<seenArticles, ldPc, ldOverlap, lastFetch, fetches>>
    /\ UNCHANGED auxVars

\* the steps of checkLd246 when the site answers every request, with the same
\* answer for both goroutines, and every write succeeds
RepliesAnswered(t) == RepliesCompare(t, OverlapListing)

RepliesSaved(t) == RepliesSave(t) /\ seenFile' = saveSeenArticles(seenArticles)

UnreadCountAnswered(t) ==
    FetchUnreadCount(t) /\ chatLog'[Len(chatLog')].count # NoCount

TypeAnswered(t) ==
    FetchNotificationsByType(t) /\ msgListing'[t].ty = Head(msgTodo[t])

SeenMessagesSaved(t) ==
    SaveSeenMessages(t) /\ seenMsgFile' = saveSeenMessages(seenMessages[msgMon[t]])

NextOverlap ==
    \/ \E t \in LdThreads : RepliesAnswered(t)
    \/ \E t \in LdThreads : RepliesUpdate(t)
    \/ \E t \in LdThreads : RepliesSaved(t)
    \/ \E t \in LdThreads : UnreadCountAnswered(t)
    \/ \E t \in LdThreads : TypeAnswered(t)
    \/ \E t \in LdThreads : MarkSeenMessages(t)
    \/ \E t \in LdThreads : SeenMessagesSaved(t)
    \/ \E t \in LdThreads : FetchUnreadMessagesReturn(t)
    \/ \E t \in LdThreads : NotifyCheck(t)
    \/ \E t \in LdThreads : Toast(t)
    \/ \E t \in LdThreads : NotifyMark(t)
    \/ \E t \in LdThreads : AddMerge(t)
    \/ \E t \in LdThreads : AddSaveWritten(t)

SpecOverlap == InitOverlap /\ [][NextOverlap]_vars

\* ------------------------------------------------------------- the mutexes
\* One step of a call, as far as the mutexes go: Lock, RLock, Unlock and
\* RUnlock of a mutex; "use" reads s.ld246Monitor or s.githubMonitor, "new"
\* constructs a monitor and "assign" stores it in the scheduler.
Step(do, mu) == [do |-> do, mu |-> mu]

Locked(mu) == <<Step("Lock", mu), Step("Unlock", mu)>>

RLocked(mu) == <<Step("RLock", mu), Step("RUnlock", mu)>>

MonitorMutexes == {"seenArticlesMu", "seenMessagesMu", "github.mu"}

Mutexes == {"s.mu", "notificationsMu", "notifier.mu"} \cup MonitorMutexes

StartLocks == Locked("s.mu")

StopLocks == Locked("s.mu")

loadSeenArticlesLocks == Locked("seenArticlesMu")

loadSeenMessagesLocks == Locked("seenMessagesMu")

NewLd246MonitorLocks == <<Step("new", "ld246")>> \o loadSeenArticlesLocks \o loadSeenMessagesLocks

UpdateConfigLocks ==
    <<Step("Lock", "s.mu")>> \o NewLd246MonitorLocks
       \o <<Step("assign", "ld246"), Step("Unlock", "s.mu")>>

TriggerCheckLocks == RLocked("s.mu")

GetRecentNotificationsLocks == RLocked("notificationsMu")

NotifyLocks == RLocked("notifier.mu") \o Locked("notifier.mu")

addNotificationsLocks == Locked("notificationsMu")

FetchRecentRepliesLocks ==
    <<Step("use", "ld246")>> \o RLocked("seenArticlesMu") \o Locked("seenArticlesMu")
       \o RLocked("seenArticlesMu")

FetchUnreadMessagesLocks ==
    <<Step("use", "ld246")>> \o RLocked("seenMessagesMu") \o Locked("seenMessagesMu")
       \o RLocked("seenMessagesMu")

FetchNotificationsSinceLocks ==
    <<Step("use", "github")>> \o RLocked("github.mu") \o Locked("github.mu")

checkLd246Locks ==
    FetchRecentRepliesLocks \o NotifyLocks \o addNotificationsLocks
       \o FetchUnreadMessagesLocks \o NotifyLocks \o addNotificationsLocks

checkGitHubLocks == FetchNotificationsSinceLocks \o NotifyLocks \o addNotificationsLocks

\* the calls a thread makes: the UI thread the methods of the scheduler, the
\* loop its check, the goroutine of TriggerCheck both checks
Operations(t) ==
    CASE t = "ui" -> {"Start", "Stop", "UpdateConfig", "TriggerCheck", "List"}
      [] t = "ldLoop" -> {"checkLd246"}
      [] OTHER -> {"manual"}

program(op) ==
    CASE op = "Start" -> StartLocks
      [] op = "Stop" -> StopLocks
      [] op = "UpdateConfig" -> UpdateConfigLocks
      [] op = "TriggerCheck" -> TriggerCheckLocks
      [] op = "List" -> GetRecentNotificationsLocks
      [] op = "checkLd246" -> checkLd246Locks
      [] OTHER -> checkLd246Locks \o checkGitHubLocks

\* the mutex object a step names: the monitors' mutexes belong to the monitor
\* the thread is using, the others exist once
mutexOf(t, mu) == [mu |-> mu, obj |-> IF mu \in MonitorMutexes THEN lockPc[t].gen ELSE 0]

nextStep(t) == program(lockPc[t].op)[lockPc[t].at]

atStep(t, dos) ==
    /\ lockPc[t].op # "idle"
    /\ lockPc[t].at <= Len(program(lockPc[t].op))
    /\ nextStep(t).do \in dos

advance(t) == [lockPc EXCEPT ![t].at = @ + 1]

holders(m, modes) ==
    {u \in LockThreads : \E h \in held[u] : h.mu = m.mu /\ h.obj = m.obj /\ h.mode \in modes}

lockFrame ==
    /\ UNCHANGED <<schedVars, ldVars, ghVars, stopVars, runVars, reqVars>>
    /\ UNCHANGED <<inbox, chatUnread, seenMessages, seenMsgFile, msgMon, msgTodo, msgListing,
                   msgNewIDs, msgOut, msgChat, chatLog, checks>>

InitLocks == InitStop

Call(t, op) ==
    /\ lockPc[t].op = "idle"
    /\ op \in Operations(t)
    /\ op = "UpdateConfig" => monitorGen < MaxConfigs
    /\ lockPc' = [lockPc EXCEPT ![t] = [op |-> op, at |-> 1, gen |-> 0]]
    /\ UNCHANGED <<held, monitorGen>>
    /\ lockFrame

\* s.ld246Monitor.Fetch...(): the monitor the scheduler points to right now
UseMonitor(t) ==
    /\ atStep(t, {"use"})
    /\ lockPc' = [lockPc EXCEPT ![t].at = @ + 1, ![t].gen = monitorGen]
    /\ UNCHANGED <<held, monitorGen>>
    /\ lockFrame

\* &Ld246Monitor{...}: an object no other thread can reach yet
NewMonitor(t) ==
    /\ atStep(t, {"new"})
    /\ lockPc' = [lockPc EXCEPT ![t].at = @ + 1, ![t].gen = monitorGen + 1]
    /\ UNCHANGED <<held, monitorGen>>
    /\ lockFrame

\* s.ld246Monitor = ...
AssignMonitor(t) ==
    /\ atStep(t, {"assign"})
    /\ monitorGen' = lockPc[t].gen
    /\ lockPc' = advance(t)
    /\ UNCHANGED held
    /\ lockFrame

Acquire(t) ==
    /\ atStep(t, {"Lock", "RLock"})
    /\ LET m == mutexOf(t, nextStep(t).mu)
           mode == IF nextStep(t).do = "Lock" THEN "w" ELSE "r"
       IN  /\ holders(m, IF mode = "w" THEN {"r", "w"} ELSE {"w"}) = {}
           /\ held' = [held EXCEPT ![t] = @ \cup {[mu |-> m.mu, obj |-> m.obj, mode |-> mode]}]
    /\ lockPc' = advance(t)
    /\ UNCHANGED monitorGen
    /\ lockFrame

Release(t) ==
    /\ atStep(t, {"Unlock", "RUnlock"})
    /\ LET m == mutexOf(t, nextStep(t).mu)
       IN  held' = [held EXCEPT ![t] = {h \in @ : ~(h.mu = m.mu /\ h.obj = m.obj)}]
    /\ lockPc' = advance(t)
    /\ UNCHANGED monitorGen
    /\ lockFrame

Return(t) ==
    /\ lockPc[t].op # "idle"
    /\ lockPc[t].at > Len(program(lockPc[t].op))
    /\ lockPc' = [lockPc EXCEPT ![t] = NoOperation]
    /\ UNCHANGED <<held, monitorGen>>
    /\ lockFrame

NextLocks ==
    \/ \E t \in LockThreads : \E op \in Operations(t) : Call(t, op)
    \/ \E t \in LockThreads : UseMonitor(t)
    \/ \E t \in LockThreads : NewMonitor(t)
    \/ \E t \in LockThreads : AssignMonitor(t)
    \/ \E t \in LockThreads : Acquire(t)
    \/ \E t \in LockThreads : Release(t)
    \/ \E t \in LockThreads : Return(t)

SpecLocks == InitLocks /\ [][NextLocks]_vars

\* ------------------------------------------- checkLd246, tick after tick
\* what the site lists as recent replies while the loop runs
CheckListings == {<<ArticleItem(1, 0, 0)>>, <<ArticleItem(1, MaxTime, MaxCount)>>}

CheckIDs == {articleNotificationID(l[1], r) : l \in CheckListings, r \in BOOLEAN}

\* a running scheduler whose ld246 loop waits for its ticker; the inbox and the
\* chat count of the site stay as they are
InitCheck ==
    /\ running = TRUE
    /\ ghToken = <<>>
    /\ lastModified = 0
    /\ notifFile = FileMissing
    /\ recentNotifications = <<>>
    /\ startedEmpty = TRUE
    /\ notifiedIDs = {}
    /\ pc = [t \in Threads |-> IF t = "ldLoop" THEN "wait" ELSE "off"]
    /\ stage = [t \in Threads |-> "none"]
    /\ batch = [t \in Threads |-> <<>>]
    /\ idx = [t \in Threads |-> 0]
    /\ err = [t \in Threads |-> "none"]
    /\ batchErr = [t \in Threads |-> "none"]
    /\ toSave = [t \in Threads |-> <<>>]
    /\ sinkOK = [id \in NoteIDs \cup CheckIDs |-> 0]
    /\ ticks = 0
    /\ LdIdle
    /\ GhQuiet
    /\ StopIdle
    /\ RunIdle
    /\ LockIdle
    /\ ReqIdle
    /\ inbox \in [1..MaxMsgs -> {"absent", "unread"}]
    /\ chatUnread \in 0..1
    /\ monitorGen = 0
    /\ seenMsgFile = MsgFileMissing
    /\ seenMessages = [g \in 0..MaxConfigs |-> {}]
    /\ msgMon = [t \in LdThreads |-> 0]
    /\ msgTodo = [t \in LdThreads |-> <<>>]
    /\ msgListing = [t \in LdThreads |-> NoListing]
    /\ msgNewIDs = [t \in LdThreads |-> {}]
    /\ msgOut = [t \in LdThreads |-> <<>>]
    /\ msgChat = [t \in LdThreads |-> 0]
    /\ chatLog = <<>>
    /\ checks = 0

\* a FetchRecentReplies that drops its per-article state when the request fails
RepliesFailedForgets(t) ==
    /\ pc[t] = "ld_check"
    /\ pc' = [pc EXCEPT ![t] = "msg_count"]
    /\ seenArticles' = NoArticles
    /\ UNCHANGED <<running, ghToken, lastModified, recentNotifications, notifFile,
                   notifiedIDs, stage, batch, idx, err, batchErr, toSave, sinkOK, ticks,
                   startedEmpty>>
    /\ UNCHANGED <<seenFile, ldPc, ldListing, ldNew, ldUpdated, ldOverlap, lastFetch,
                   fetches>>
    /\ UNCHANGED auxVars

\* FetchRecentReplies returns an error (the request fails, the status is not
\* 200, the body does not parse or code # 0); checkLd246 logs it and goes on
RepliesFailed(t) ==
    /\ pc[t] = "ld_check"
    /\ pc' = [pc EXCEPT ![t] = "msg_count"]
    /\ UNCHANGED <<running, ghToken, lastModified, recentNotifications, notifFile,
                   notifiedIDs, stage, batch, idx, err, batchErr, toSave, sinkOK, ticks,
                   startedEmpty>>
    /\ UNCHANGED ldVars
    /\ UNCHANGED auxVars

RepliesListed(t) == \E articles \in CheckListings : RepliesCompare(t, articles)

NextCheck ==
    \/ \E t \in Loops : TickerLd246(t)
    \/ \E t \in Loops : RepliesListed(t)
    \/ \E t \in Loops : RepliesFailed(t)
    \/ \E t \in Loops : RepliesUpdate(t)
    \/ \E t \in Loops : RepliesSave(t)
    \/ \E t \in Loops : FetchUnreadCount(t)
    \/ \E t \in Loops : FetchNotificationsByType(t)
    \/ \E t \in Loops : MarkSeenMessages(t)
    \/ \E t \in Loops : SaveSeenMessages(t)
    \/ \E t \in Loops : FetchUnreadMessagesReturn(t)
    \/ \E t \in Loops : NotifyCheck(t)
    \/ \E t \in Loops : NotifyPush(t)
    \/ \E t \in Loops : NotifyMark(t)
    \/ \E t \in Loops : AddMerge(t)
    \/ \E t \in Loops : AddSave(t)

SpecCheck == InitCheck /\ [][NextCheck]_vars

\* ------------------------- FetchUnreadMessages, category after category
CategoryMsgs == 2    \* messages of the site, one "commented" and one "at"

CategoryIDs ==
    {messageNotification(typeOf(k), ServerMessage(k, FALSE)).ID : k \in 1..CategoryMsgs}

\* a running scheduler whose ld246 loop waits for its ticker, and a site that
\* holds unread messages of two categories
InitCategories ==
    /\ running = TRUE
    /\ ghToken = <<>>
    /\ lastModified = 0
    /\ notifFile = FileMissing
    /\ recentNotifications = <<>>
    /\ startedEmpty = TRUE
    /\ notifiedIDs = {}
    /\ pc = [t \in Threads |-> IF t = "ldLoop" THEN "wait" ELSE "off"]
    /\ stage = [t \in Threads |-> "none"]
    /\ batch = [t \in Threads |-> <<>>]
    /\ idx = [t \in Threads |-> 0]
    /\ err = [t \in Threads |-> "none"]
    /\ batchErr = [t \in Threads |-> "none"]
    /\ toSave = [t \in Threads |-> <<>>]
    /\ sinkOK = [id \in (NoteIDs \cup CheckIDs) \cup CategoryIDs |-> 0]
    /\ ticks = 0
    /\ LdIdle
    /\ GhQuiet
    /\ StopIdle
    /\ RunIdle
    /\ LockIdle
    /\ ReqIdle
    /\ inbox \in [1..CategoryMsgs -> {"absent", "unread"}]
    /\ chatUnread \in 0..1
    /\ monitorGen = 0
    /\ seenMsgFile = MsgFileMissing
    /\ seenMessages = [g \in 0..MaxConfigs |-> {}]
    /\ msgMon = [t \in LdThreads |-> 0]
    /\ msgTodo = [t \in LdThreads |-> <<>>]
    /\ msgListing = [t \in LdThreads |-> NoListing]
    /\ msgNewIDs = [t \in LdThreads |-> {}]
    /\ msgOut = [t \in LdThreads |-> <<>>]
    /\ msgChat = [t \in LdThreads |-> 0]
    /\ chatLog = <<>>
    /\ checks = 0

NextCategories ==
    \/ \E t \in Loops : TickerLd246(t)
    \/ \E t \in Loops : RepliesListed(t)
    \/ \E t \in Loops : RepliesFailed(t)
    \/ \E t \in Loops : RepliesUpdate(t)
    \/ \E t \in Loops : RepliesSave(t)
    \/ \E t \in Loops : FetchUnreadCount(t)
    \/ \E t \in Loops : FetchNotificationsByType(t)
    \/ \E t \in Loops : MarkSeenMessages(t)
    \/ \E t \in Loops : SeenMessagesSaved(t)
    \/ \E t \in Loops : FetchUnreadMessagesReturn(t)
    \/ \E t \in Loops : NotifyCheck(t)
    \/ \E t \in Loops : Toast(t)
    \/ \E t \in Loops : NotifyMark(t)
    \/ \E t \in Loops : AddMerge(t)
    \/ \E t \in Loops : AddSaveWritten(t)

SpecCategories == InitCategories /\ [][NextCategories]_vars

\* ------------------------- FetchUnreadMessages, checks that do not overlap
\* UpdateConfig between two checks of the loop
UpdateConfigBetweenChecks == pc["ldLoop"] \in {"off", "wait"} /\ UpdateConfig

NextSeen ==
    \/ Start
    \/ UpdateConfigBetweenChecks
    \/ \E k \in 1..MaxMsgs : MessageArrives(k)
    \/ \E k \in 1..MaxMsgs : MessageRead(k)
    \/ \E c \in 0..MaxChat : ChatChanges(c)
    \/ \E t \in Loops : TickerLd246(t)
    \/ \E t \in Loops : RecentRepliesNone(t)
    \/ \E t \in Loops : FetchUnreadCount(t)
    \/ \E t \in Loops : FetchNotificationsByType(t)
    \/ \E t \in Loops : MarkSeenMessages(t)
    \/ \E t \in Loops : SeenMessagesSaved(t)
    \/ \E t \in Loops : FetchUnreadMessagesReturn(t)
    \/ \E t \in Loops : FetchNotificationsSince(t)
    \/ \E t \in Loops : NotifyCheck(t)
    \/ \E t \in Loops : Toast(t)
    \/ \E t \in Loops : NotifyMark(t)
    \/ \E t \in Loops : AddMerge(t)
    \/ \E t \in Loops : AddSave(t)

SpecSeen == InitMsg /\ [][NextSeen]_vars

\* ------------------------------------------ the ld246 requests and the token
MaxRequests == 6     \* requests the ld246 client sends in one run

\* how a request ends: no response, a status, a body that does not parse, a
\* body with code # 0, or a body the monitor can use
Outcomes == {"transport", "unauthorized", "forbidden", "status", "parse", "code", "ok"}

\* the error FetchRecentReplies, FetchUnreadMessages and
\* fetchNotificationsByType return for an outcome
errorOf(outcome) == IF outcome = "ok" THEN "none" ELSE outcome

\* the Authorization header of a request: set only when the token is not empty
authorization(token) == IF token = <<>> THEN <<>> ELSE <<"token ">> \o token

counted(n) == IF n > MaxRequests THEN MaxRequests ELSE n

\* an ld246 monitor built with or without a token
InitRequests ==
    /\ running = FALSE
    /\ ghToken = <<"t">>
    /\ lastModified = 0
    /\ notifFile = FileMissing
    /\ recentNotifications = <<>>
    /\ startedEmpty = TRUE
    /\ notifiedIDs = {}
    /\ pc = [t \in Threads |-> "off"]
    /\ stage = [t \in Threads |-> "none"]
    /\ batch = [t \in Threads |-> <<>>]
    /\ idx = [t \in Threads |-> 0]
    /\ err = [t \in Threads |-> "none"]
    /\ batchErr = [t \in Threads |-> "none"]
    /\ toSave = [t \in Threads |-> <<>>]
    /\ sinkOK = [id \in NoteIDs |-> 0]
    /\ ticks = 0
    /\ LdIdle
    /\ GhQuiet
    /\ StopIdle
    /\ RunIdle
    /\ LockIdle
    /\ MsgIdle
    /\ ld246Token \in {<<>>, <<"t">>}
    /\ httpCalls = 0
    /\ fetchErr = NoSubOperation

requestFrame ==
    /\ UNCHANGED <<schedVars, ldVars, ghVars, stopVars, msgVars, runVars, lockVars>>
    /\ UNCHANGED ld246Token

\* FetchRecentReplies as far as its request goes: the request is built, gets
\* the header when there is a token, and is sent
RecentRepliesRequest(outcome) ==
    /\ httpCalls < MaxRequests
    /\ httpCalls' = counted(httpCalls + 1)
    /\ fetchErr' = [op |-> "FetchRecentReplies", err |-> errorOf(outcome),
                    auth |-> authorization(ld246Token)]
    /\ requestFrame

\* FetchUnreadMessages as far as its requests go: a warning when the token is
\* empty, the count request, and after a count the requests of the categories
\* that have unread messages (an error in one of them is logged)
UnreadMessagesRequests(outcome, categories) ==
    /\ httpCalls < MaxRequests
    /\ httpCalls' = counted(httpCalls + 1 + (IF outcome = "ok" THEN categories ELSE 0))
    /\ fetchErr' = [op |-> "FetchUnreadMessages", err |-> errorOf(outcome),
                    auth |-> authorization(ld246Token)]
    /\ requestFrame

NextRequests ==
    \/ \E outcome \in Outcomes : RecentRepliesRequest(outcome)
    \/ \E outcome \in Outcomes : \E n \in 0..Len(MsgTypes) : UnreadMessagesRequests(outcome, n)

SpecRequests == InitRequests /\ [][NextRequests]_vars

\* ------------------------------------------------ the loops, tick after tick
\* NewScheduler with a GitHub token and no notifications file, before Start
InitLive ==
    /\ Init
    /\ ghToken = <<"t">>
    /\ notifFile = FileMissing

\* a loop that returns at its first tick instead of checking
TickerEndsLoop(t) ==
    /\ t \in Loops
    /\ pc[t] = "wait"
    /\ pc' = [pc EXCEPT ![t] = "off"]
    /\ UNCHANGED <<running, ghToken, lastModified, recentNotifications, notifFile,
                   notifiedIDs, stage, batch, idx, err, batchErr, toSave, sinkOK, ticks,
                   startedEmpty>>
    /\ UNCHANGED ldVars
    /\ UNCHANGED auxVars

\* case <-ticker.C of a polling loop, any number of times
TickerFires(t) ==
    /\ t \in Loops
    /\ pc[t] = "wait"
    /\ pc' = [pc EXCEPT ![t] = FirstStep(t)]
    /\ UNCHANGED <<running, ghToken, lastModified, recentNotifications, notifFile,
                   notifiedIDs, stage, batch, idx, err, batchErr, toSave, sinkOK, ticks,
                   startedEmpty>>
    /\ UNCHANGED ldVars
    /\ UNCHANGED auxVars

\* the fetch of a loop's check returns, with a result or with an error
FetchReturns(t) == CheckLd246Down(t) \/ FetchNotificationsSince(t)

\* NotifyBatch and addNotifications: calls of the loop's own goroutine
HandleBatch(t) ==
    NotifyCheck(t) \/ NotifyPush(t) \/ NotifyMark(t) \/ AddMerge(t) \/ AddSave(t)

NextLive ==
    \/ Start
    \/ \E t \in Loops : TickerFires(t)
    \/ \E t \in Loops : FetchReturns(t)
    \/ \E t \in Loops : HandleBatch(t)

\* the ticker of each loop fires again and again and each goroutine gets to
\* run; whether a fetch returns is up to the network
SpecLive ==
    /\ InitLive
    /\ [][NextLive]_vars
    /\ \A t \in Loops : WF_vars(TickerFires(t)) /\ WF_vars(HandleBatch(t))

\* ------------------------------------- UpdateConfig and the GitHub loop
\* the GitHub loop alone: its check at Start, one more at a tick, and
\* UpdateConfig at any moment
NextConfig ==
    \/ Start
    \/ UpdateConfig
    \/ Tick("ghLoop")
    \/ FetchNotificationsSince("ghLoop")
    \/ NotifyCheck("ghLoop")
    \/ NotifyPush("ghLoop")
    \/ NotifyMark("ghLoop")
    \/ AddMerge("ghLoop")
    \/ AddSave("ghLoop")

SpecConfig == InitStop /\ [][NextConfig]_vars

\* ------------------------------------------------------------------ claims
\* the goroutine t takes a step
Steps(t) == pc'[t] # pc[t] \/ idx'[t] # idx[t]

\* C1: for every identifier and every interleaving of concurrent Notify calls,
\* the sink succeeds at most once for that identifier in the process lifetime.
C1_SinkAtMostOncePerID == \A id \in GhIDs : sinkOK[id] <= 1

\* C2: in every reachable state, after the load and after any sequence of
\* addNotifications calls from any goroutine, the list holds at most 50 entries.
C2_ListWithinCapacity == Len(recentNotifications) <= Capacity

\* a new notification has been merged into a list that was full
C2_Witness ==
    /\ Len(recentNotifications) = Capacity
    /\ ~startedEmpty
    /\ recentNotifications[1].ID \in GhIDs

\* C3: starting from an empty list, after any sequence of addNotifications
\* calls no two entries of the list share an identifier.
C3_NoDuplicateIDs == startedEmpty => NoDuplicateIDs(recentNotifications)

\* a batch that repeats an identifier has been merged into a list that
\* started empty
C3_Witness ==
    /\ startedEmpty
    /\ \E t \in Threads :
          /\ pc[t] = "save"
          /\ Len(batch[t]) > Cardinality(IDsOf(batch[t]))
          /\ recentNotifications # <<>>

\* C4: a Notify call for an identifier that an earlier Notify call delivered
\* returns nil without a push, so the two calls push once; an identifier is
\* marked only after a push of it succeeded.
C4_SecondDeliverySkipsSink ==
    [][/\ \A id \in notifiedIDs' : sinkOK'[id] >= 1
       /\ \A t \in Threads :
             (pc[t] = "n_check" /\ Current(t).ID \in notifiedIDs /\ Steps(t))
                => /\ sinkOK' = sinkOK
                   /\ err'[t] = "nil"
                   /\ pc'[t] \in {"n_check", "merge"}]_vars

\* one goroutine has called Notify twice for one identifier, the first call
\* delivered it, and the pair pushed once
C4_Witness ==
    \E t \in Threads :
        /\ pc[t] = "merge"
        /\ Len(batch[t]) = 2
        /\ batch[t][1].ID = batch[t][2].ID
        /\ batch[t][1].ID \in notifiedIDs
        /\ sinkOK[batch[t][1].ID] = 1
        /\ err[t] = "nil"

\* C5: when the push fails, Notify returns an error and notifiedIDs is
\* unchanged, and a Notify call for an identifier that is not in notifiedIDs
\* goes to the push.
C5_FailureLeavesIDUnmarked ==
    [][\A t \in Threads :
          /\ (pc[t] = "n_push" /\ Steps(t) /\ sinkOK' = sinkOK)
                => (notifiedIDs' = notifiedIDs /\ err'[t] = "error")
          /\ (pc[t] = "n_check" /\ Current(t).ID \notin notifiedIDs /\ Steps(t))
                => pc'[t] = "n_push"]_vars

\* after a failed push of an identifier, a second Notify call for the same
\* identifier is at the push again
C5_Witness ==
    \E t \in Threads :
        /\ pc[t] = "n_push"
        /\ idx[t] = 2
        /\ err[t] = "error"
        /\ batch[t][1].ID = batch[t][2].ID

\* C6: whenever NotifyBatch has returned, every entry of the batch has been
\* handed to Notify, whatever failed on the way, and the result is nil; the
\* batch is then merged into the list.
C6_FailureDoesNotStopBatch ==
    \A t \in Threads :
        /\ pc[t] \in {"n_check", "n_push", "n_mark"} => idx[t] \in 1..Len(batch[t])
        /\ pc[t] \in {"merge", "save"}
              => (idx[t] = Len(batch[t]) + 1 /\ batchErr[t] = "nil")
        /\ pc[t] = "save" => IDsOf(batch[t]) \subseteq IDsOf(toSave[t])

\* the push of the first entry failed, the second entry was pushed, and the
\* batch has been merged
C6_Witness ==
    /\ ticks = 0
    /\ pc["ghLoop"] = "save"
    /\ Len(batch["ghLoop"]) = 2
    /\ batch["ghLoop"][1].ID # batch["ghLoop"][2].ID
    /\ sinkOK[batch["ghLoop"][1].ID] = 0
    /\ sinkOK[batch["ghLoop"][2].ID] = 1
    /\ IDsOf(batch["ghLoop"]) \subseteq IDsOf(recentNotifications)

\* C7: addNotifications of a batch of one notification whose identifier is in
\* the list leaves the length of the list unchanged, puts that identifier at
\* index 1 and keeps the order of the other entries.
C7_ReAddMovesToFront ==
    [][\A t \in Threads :
          (/\ pc[t] = "merge"
           /\ pc'[t] = "save"
           /\ Len(batch[t]) = 1
           /\ batch[t][1].ID \in IDsOf(recentNotifications))
             => /\ Len(recentNotifications') = Len(recentNotifications)
                /\ recentNotifications'[1].ID = batch[t][1].ID
                /\ WithoutIDs(recentNotifications', {batch[t][1].ID})
                     = WithoutIDs(recentNotifications, {batch[t][1].ID})]_vars

\* two goroutines have each merged a batch of the same single notification:
\* the later merge found the identifier in the list
C7_Witness ==
    /\ pc["ghLoop"] = "save"
    /\ pc["manual"] = "save"
    /\ Len(batch["ghLoop"]) = 1
    /\ batch["manual"] = batch["ghLoop"]
    /\ recentNotifications[1].ID = batch["ghLoop"][1].ID

\* C8: saving the list and loading it into a fresh scheduler yields the same
\* notifications in the same order, and a file of more than 50 entries loads
\* as its first 50 entries.
C8_SaveLoadRoundTrip ==
    /\ loadNotifications(saveNotificationsWithData(recentNotifications)).list
          = recentNotifications
    /\ \A f \in InitialFiles :
          (f.kind = "json" /\ Len(f.items) > Capacity)
             => loadNotifications(f).list = SubSeq(f.items, 1, Capacity)

\* the notifications of a result that are about article oId
aboutArticle(notes, oId) == {k \in DOMAIN notes : notes[k].Link = articleLink(oId)}

\* goroutine t has finished the comparison of a fetch that no other fetch
\* overlaps, and the fetch before it did not overlap another either
ConsecutiveFetch(t) == ldPc[t] = "save" /\ ~ldOverlap[t] /\ lastFetch.clean

\* C9: when two consecutive FetchRecentReplies calls that do not overlap both
\* list an article with the same update time and the same comment count, the
\* second call returns no notification for that article.
C9_UnchangedArticleIsSilent ==
    \A t \in LdThreads :
        ConsecutiveFetch(t) =>
            \A i \in DOMAIN ldListing[t], j \in DOMAIN lastFetch.listing :
                (/\ ldListing[t][i].oId = lastFetch.listing[j].oId
                 /\ ldListing[t][i].articleUpdateTime = lastFetch.listing[j].articleUpdateTime
                 /\ ldListing[t][i].articleCommentCount
                       = lastFetch.listing[j].articleCommentCount)
                    => aboutArticle(ldNew[t], ldListing[t][i].oId) = {}

\* the second of two consecutive fetches lists an article unchanged next to
\* a changed one, and returns a notification for the changed one only
C9_Witness ==
    \E t \in LdThreads :
        /\ ConsecutiveFetch(t)
        /\ Len(ldListing[t]) = 2
        /\ Len(ldNew[t]) = 1
        /\ \E i \in DOMAIN ldListing[t] :
              /\ ldListing[t][i] \in {lastFetch.listing[j] : j \in DOMAIN lastFetch.listing}
              /\ aboutArticle(ldNew[t], ldListing[t][i].oId) = {}

\* C10: when an article recorded by one FetchRecentReplies call is listed by
\* the next call with a strictly higher comment count, the next call returns
\* exactly one notification for it, the title carries the reply marker, and
\* the identifier differs from the identifier of the article's notification
\* as a new article.
C10_MoreCommentsNotifyOnce ==
    \A t \in LdThreads :
        ConsecutiveFetch(t) =>
            \A i \in DOMAIN ldListing[t], j \in DOMAIN lastFetch.listing :
                (/\ ldListing[t][i].oId = lastFetch.listing[j].oId
                 /\ ldListing[t][i].articleCommentCount
                       > lastFetch.listing[j].articleCommentCount)
                    => /\ Cardinality(aboutArticle(ldNew[t], ldListing[t][i].oId)) = 1
                       /\ \A k \in aboutArticle(ldNew[t], ldListing[t][i].oId) :
                             /\ ldNew[t][k].Title[1] = ReplyMarker
                             /\ ldNew[t][k].ID # <<"ld246_article_">> \o ldListing[t][i].oId

\* the second of two consecutive fetches lists an article with more comments
\* and the same update time, and returns one marked notification for it
C10_Witness ==
    \E t \in LdThreads :
        /\ ConsecutiveFetch(t)
        /\ \E i \in DOMAIN ldListing[t], j \in DOMAIN lastFetch.listing :
              /\ ldListing[t][i].oId = lastFetch.listing[j].oId
              /\ ldListing[t][i].articleUpdateTime = lastFetch.listing[j].articleUpdateTime
              /\ ldListing[t][i].articleCommentCount
                    > lastFetch.listing[j].articleCommentCount
              /\ Cardinality(aboutArticle(ldNew[t], ldListing[t][i].oId)) = 1
              /\ \E k \in DOMAIN ldNew[t] : ldNew[t][k].Title[1] = ReplyMarker

\* the notifications of a result that carry the reply marker
repliesIn(notes) == {k \in DOMAIN notes : notes[k].Title[1] = ReplyMarker}

\* C11: when two successive FetchRecentReplies calls each return a
\* notification with the reply marker for the same article, the two
\* notifications carry different identifiers.
C11_SuccessiveUpdatesDiffer ==
    \A t \in LdThreads :
        ConsecutiveFetch(t) =>
            \A k \in repliesIn(ldNew[t]), j \in repliesIn(lastFetch.notes) :
                ldNew[t][k].Link = lastFetch.notes[j].Link
                   => ldNew[t][k].ID # lastFetch.notes[j].ID

\* the per-article state that holds exactly what a listing says
recordOf(articles) ==
    [id \in listedIDs(articles) |->
        stateOf(articles[CHOOSE i \in DOMAIN articles : articles[i].oId = id])]

C13_ReadMessageNeverSurfaced ==
    [][\A t \in LdThreads :
          \A i \in DOMAIN msgListing'[t].items :
             LET item == msgListing'[t].items[i]
                 key == messageKey(msgListing'[t].ty, item)
             IN  item.hasRead =>
                    /\ messageNotification(msgListing'[t].ty, item).ID \notin IDsOf(msgOut'[t])
                    /\ key \notin msgNewIDs'[t]
                    /\ key \in seenMessages'[msgMon'[t]] => key \in seenMessages[msgMon[t]]]_vars

\* a category listing with a read message whose key was never seen has been
\* compared, and nothing came of it
C13_Witness ==
    /\ pc["ldLoop"] = "msg_chat"
    /\ msgOut["ldLoop"] = <<>>
    /\ \E i \in DOMAIN msgListing["ldLoop"].items :
          /\ msgListing["ldLoop"].items[i].hasRead
          /\ messageKey(msgListing["ldLoop"].ty, msgListing["ldLoop"].items[i])
                \notin seenMessages[msgMon["ldLoop"]]

\* the chat toasts once check i of the ld246 loop was over
toastsAfter(i) == IF i < Len(chatLog) THEN chatLog[i + 1].before ELSE chatToasts

\* the toasts for a chat count of c that check i delivered
chatDelivered(i, c) == toastsAfter(i)[c] - chatLog[i].before[c]

RECURSIVE chatDeliveredUpTo(_, _)
chatDeliveredUpTo(i, c) ==
    IF c = 0 THEN 0 ELSE chatDelivered(i, c) + chatDeliveredUpTo(i, c - 1)

\* all chat toasts that check i delivered
chatDeliveries(i) == chatDeliveredUpTo(i, MaxChat)

\* no check before check i got a chat count of c
firstReport(i, c) == \A j \in 1..(i - 1) : chatLog[j].count # c

\* C14 as stated: with a working sink, any two consecutive checks of the ld246
\* loop that both report the chat count c > 0 deliver one chat notification
\* between them, and any two that report c > 0 then d > 0, d # c, deliver two,
\* with different identifiers.
C14_ConsecutiveTicks ==
    pc["ldLoop"] = "wait" =>
       \A i \in 1..(Len(chatLog) - 1) :
          LET c == chatLog[i].count
              d == chatLog[i + 1].count
          IN  (c > 0 /\ d > 0) =>
                 IF c = d
                 THEN chatDeliveries(i) + chatDeliveries(i + 1) = 1
                 ELSE /\ chatDeliveries(i) + chatDeliveries(i + 1) = 2
                      /\ chatDelivered(i, c) = 1
                      /\ chatDelivered(i + 1, d) = 1
                      /\ chatID(c) # chatID(d)

\* C14: the same, for two consecutive checks whose counts no earlier check of
\* the process has reported.
C14_FirstReports ==
    pc["ldLoop"] = "wait" =>
       \A i \in 1..(Len(chatLog) - 1) :
          LET c == chatLog[i].count
              d == chatLog[i + 1].count
          IN  (c > 0 /\ d > 0 /\ firstReport(i, c) /\ firstReport(i, d)) =>
                 IF c = d
                 THEN /\ chatDeliveries(i) + chatDeliveries(i + 1) = 1
                      /\ chatDelivered(i, c) = 1
                 ELSE /\ chatDeliveries(i) + chatDeliveries(i + 1) = 2
                      /\ chatDelivered(i, c) = 1
                      /\ chatDelivered(i + 1, d) = 1
                      /\ chatID(c) # chatID(d)

\* the first two checks reported 1 and then 2, and the second is over
C14_Witness ==
    /\ pc["ldLoop"] = "wait"
    /\ Len(chatLog) = 2
    /\ chatLog[1].count = 1
    /\ chatLog[2].count = 2
    /\ sinkOK[chatID(1)] = 1
    /\ sinkOK[chatID(2)] = 1

\* C15: with a working sink, every check of the ld246 loop that reports a
\* nonzero chat count different from the count of the check before it delivers
\* the chat notification for that count, and every check that reports the
\* same count as the check before it delivers no chat notification.
C15_ChangedCountNotifies ==
    pc["ldLoop"] = "wait" =>
       \A i \in 2..Len(chatLog) :
          LET c == chatLog[i].count
              before == chatLog[i - 1].count
          IN  (c # NoCount /\ before # NoCount) =>
                 /\ (c > 0 /\ c # before) => chatDelivered(i, c) = 1
                 /\ (c = before) => chatDeliveries(i) = 0

\* C16: a key that is in the seen-message set stays in it: no step, be it of
\* a scheduled check or of UpdateConfig, takes a key out of the set of the
\* scheduler's monitor or out of the set that the state file holds.
C16_SeenKeysStay ==
    [][/\ seenMessages[monitorGen] \subseteq seenMessages'[monitorGen']
       /\ loadSeenMessages(seenMsgFile) \subseteq loadSeenMessages(seenMsgFile')]_vars

\* C17: a FetchNotificationsSince call of a monitor whose cursor is T1 that
\* gets a 304 response with Last-Modified T2 > T1 returns an empty batch and
\* no error, and the cursor is T2 afterwards.
C17_NotModifiedMovesCursor ==
    (/\ ghCall.made
     /\ ghCall.token # <<>>
     /\ ghCall.response.status = "304"
     /\ ghCall.response.stamp > ghCall.before)
       => /\ ghReturn.notes = <<>>
          /\ ghReturn.err = "nil"
          /\ ghReturn.after = ghCall.response.stamp
          /\ lastModified = ghCall.response.stamp

\* a monitor whose cursor a response had set before has got a 304 response
\* with a later Last-Modified
C17_Witness ==
    /\ ghCall.made
    /\ ghCall.response.status = "304"
    /\ ghCall.before > 0
    /\ ghCall.response.stamp > ghCall.before
    /\ lastModified = ghCall.response.stamp

\* C18: whenever FetchNotificationsSince returns an error, the cursor equals
\* its value before the call.
C18_ErrorKeepsCursor ==
    (ghCall.made /\ ghReturn.err = "error")
       => (ghReturn.after = ghCall.before /\ lastModified = ghCall.before)

\* C19: a FetchNotificationsSince call of a monitor with an empty token
\* returns an error, sends no request and leaves the cursor unchanged.
C19_EmptyTokenFailsAtOnce ==
    (ghCall.made /\ ghCall.token = <<>>)
       => /\ ghReturn.err = "error"
          /\ ~ghReturn.requested
          /\ ghReturn.after = ghCall.before
          /\ lastModified = ghCall.before

\* a monitor with an empty token has been asked to fetch while the server
\* had a listing and a Last-Modified value to give
C19_Witness ==
    /\ ghCall.made
    /\ ghCall.token = <<>>
    /\ ghCall.response.status = "200"
    /\ ghCall.response.stamp > 0
    /\ ghCall.response.items # <<>>
    /\ ghReturn.err = "error"

\* C20: every call of Stop on a running scheduler returns in the end, even
\* when a loop stays in a fetch for ever.
C20_StopReturns == (stopPc = "waiting") ~> (stopPc = "returned")

\* Stop has returned while the GitHub loop was still inside its fetch
C20_Witness ==
    /\ stopPc = "returned"
    /\ cancelled
    /\ pc["ghLoop"] = "gh_fetch"

\* C21: at any time at most one polling loop per source exists, a Start on
\* a running scheduler having started none.
C21_OneLoopPerSource == \A src \in Sources : loopsAlive[src] <= 1

\* a step that is a call of Stop
isStopCall ==
    /\ stopPc # "waiting"
    /\ lastCall'.op = "Stop"
    /\ lastCall' # lastCall \/ stopPc' # stopPc \/ cancelled' # cancelled

\* C22: a Stop on a scheduler that is not running leaves the running flag
\* false, cancels nothing and returns without waiting, and touches nothing
\* else, on a scheduler never started as after an earlier Stop.
C22_StopWhenStoppedIsNoOp ==
    [][(isStopCall /\ ~running) =>
          /\ running' = FALSE
          /\ cancelled' = cancelled
          /\ stopPc' = "returned"
          /\ loopsAlive' = loopsAlive
          /\ UNCHANGED schedVars]_vars

\* a second Stop, after the one that cancelled, has returned
C22_Witness ==
    /\ lastCall = [op |-> "Stop", wasRunning |-> FALSE]
    /\ cancelled
    /\ ~running
    /\ stopPc = "returned"

\* a step that is a call of TriggerCheck
isTriggerCheckCall ==
    /\ lastCall'.op = "TriggerCheck"
    /\ lastCall' # lastCall \/ (pc["manual"] = "off" /\ pc'["manual"] # "off")

\* C23: a TriggerCheck on a scheduler that is not running starts no check
\* goroutine, so no fetch, and changes neither the cursor, the delivered
\* identifiers, the sink, the recent-notifications list nor its file.
C23_TriggerWhenStoppedIsNoOp ==
    [][(isTriggerCheckCall /\ ~running) =>
          /\ pc' = pc
          /\ UNCHANGED schedVars
          /\ loopsAlive' = loopsAlive]_vars

\* TriggerCheck has been called on a stopped scheduler
C23_Witness ==
    /\ lastCall = [op |-> "TriggerCheck", wasRunning |-> FALSE]
    /\ ~running
    /\ pc["manual"] = "off"

\* the step in which the fetch of loop t returns without a batch, as every
\* failed fetch does
fetchYieldsNothing(t) ==
    /\ pc[t] \in {"gh_fetch", "ld_check"}
    /\ pc'[t] # pc[t]
    /\ pc'[t] # "n_check"

C25_LoadReportsNoError ==
    (lastCall.op = "NewScheduler" /\ notifFile.kind \in {"missing", "corrupt"}) =>
       /\ recentNotifications = <<>>
       /\ ~lastCall.loadErr

\* C25: a scheduler constructed over a missing or unparsable notifications
\* file has an empty recent-notifications list and is not running;
\* loadNotifications returns an error exactly when the file is there but
\* does not parse, and NewScheduler returns the scheduler all the same.
C25_ConstructionSurvivesBadFile ==
    (lastCall.op = "NewScheduler" /\ notifFile.kind \in {"missing", "corrupt"}) =>
       /\ recentNotifications = <<>>
       /\ ~running
       /\ lastCall.loadErr <=> (notifFile.kind = "corrupt")

\* NewScheduler has returned over a file that does not parse
C25_Witness ==
    /\ lastCall.op = "NewScheduler"
    /\ notifFile = FileCorrupt
    /\ recentNotifications = <<>>

\* C26: when no addNotifications call is under way, at least one has
\* returned and every write succeeded, the notifications file holds the
\* recent-notifications list as it is in memory.
C26_FileIsListWhenQuiet ==
    (/\ \A t \in Threads : pc[t] \notin {"merge", "save"}
     /\ IDsOf(recentNotifications) \cap GhIDs # {}) =>
       notifFile = saveNotificationsWithData(recentNotifications)

\* C27: the locked section of addNotifications leaves the distinct
\* notifications of the batch in batch order, then the earlier entries that
\* are not in the batch in their earlier order, cut to the first 50.
C27_BatchOrderAtFront ==
    [][\A t \in Threads :
          (pc[t] = "merge" /\ pc'[t] = "save") =>
             recentNotifications' =
                capList(firstOccurrences(batch[t], {})
                           \o WithoutIDs(recentNotifications, IDsOf(batch[t])))]_vars

\* the positions inside NotifyBatch
Delivering == {"n_check", "n_push", "n_mark"}

\* C28: within a check, a fetch that returns a nonempty batch is followed by
\* the deliveries of the whole batch, then by the merge into the list, then by
\* the write of the file, in that order; a fetch that fails or returns nothing
\* is followed by none of the three.
C28_DeliverMergePersist ==
    [][/\ \A t \in Threads :
             /\ (pc[t] \in {"gh_fetch", "ld_check"} /\ pc'[t] # pc[t]) =>
                   IF pc'[t] = "n_check"
                   THEN batch'[t] # <<>> /\ idx'[t] = 1
                   ELSE /\ pc'[t] \notin Delivering \cup {"merge", "save"}
                        /\ UNCHANGED <<sinkOK, notifiedIDs, recentNotifications, notifFile>>
             /\ (pc[t] \in Delivering /\ pc'[t] \notin Delivering) =>
                   pc'[t] = "merge" /\ idx'[t] = Len(batch[t]) + 1
             /\ (pc[t] = "merge" /\ pc'[t] # "merge") => pc'[t] = "save"
       /\ (sinkOK' # sinkOK \/ notifiedIDs' # notifiedIDs) =>
             \E t \in Threads : pc[t] \in Delivering /\ Steps(t)
       /\ recentNotifications' # recentNotifications =>
             \E t \in Threads : /\ pc[t] = "merge" /\ pc'[t] = "save"
                                /\ idx[t] = Len(batch[t]) + 1
       /\ notifFile' # notifFile =>
             \E t \in Threads : /\ pc[t] = "save" /\ pc'[t] # "save"
                                /\ IDsOf(batch[t]) \subseteq IDsOf(toSave[t])
                                /\ notifFile' = saveNotificationsWithData(toSave[t])]_vars

\* a batch of two has been delivered and merged, and its write is next
C28_Witness ==
    /\ pc["ghLoop"] = "save"
    /\ Len(batch["ghLoop"]) = 2
    /\ batch["ghLoop"][1].ID # batch["ghLoop"][2].ID
    /\ \A i \in 1..2 : /\ sinkOK[batch["ghLoop"][i].ID] >= 1
                       /\ batch["ghLoop"][i].ID \in IDsOf(recentNotifications)
    /\ notifFile = FileMissing

\* what one checkLd246 alone leaves behind on the fresh installation
singleReplies == compareArticles(NoArticles, OverlapListing)

singleState ==
    updateSeenArticles(NoArticles, updatedArticles(NoArticles, OverlapListing), OverlapListing)

singleInbox == inboxListing(OverlapInbox, typeOf(1), MaxMsgs)

singleSeen == newMessageIDs({}, typeOf(1), singleInbox)

singleStore ==
    mergeNotifications(mergeNotifications(<<>>, singleReplies),
                       messageNotes({}, typeOf(1), singleInbox))

\* both goroutines are through checkLd246
bothChecked == pc["ldLoop"] = "wait" /\ pc["manual"] = "gh_fetch"

\* C29: when the tick's and the manual check's checkLd246 have both returned,
\* having got the same answers from the site, the per-article state, the
\* seen-message set and the recent-notifications list are those one check
\* alone would have left.
C29_OverlapEqualsSingleCheck ==
    bothChecked =>
       /\ seenArticles = singleState
       /\ seenMessages[monitorGen] = singleSeen
       /\ recentNotifications = singleStore

\* C30: no thread holds mutexes of two components at once: whatever it holds
\* in Start, Stop, UpdateConfig, TriggerCheck, List, the loops' checks and the
\* monitors' fetches is one mutex.
C30_NoNestedLocks ==
    \A t \in LockThreads : \A a, b \in held[t] : a.mu = b.mu

\* the dedup state of the ld246 monitor, in memory and on disk
seenState == <<seenArticles, seenFile, seenMessages, seenMsgFile>>

\* the step in which a request of the ld246 monitor comes back as an error
repliesFailedStep(t) == pc[t] = "ld_check" /\ pc'[t] = "msg_count"

countFailedStep(t) ==
    /\ pc[t] = "msg_count"
    /\ Len(chatLog') > Len(chatLog)
    /\ chatLog'[Len(chatLog')].count = NoCount

typeFailedStep(t) ==
    /\ pc[t] = "msg_type"
    /\ msgTodo'[t] # msgTodo[t]
    /\ msgListing'[t] = msgListing[t]

\* C31: a failed request of the ld246 monitor (recent replies, unread count or
\* one category) leaves the per-article state and the seen-message set, in
\* memory and in their files, as they were.
C31_FailedFetchKeepsSeenState ==
    [][\A t \in LdThreads :
          (repliesFailedStep(t) \/ countFailedStep(t) \/ typeFailedStep(t))
             => seenState' = seenState]_vars

\* a count request has just failed while articles and messages are on record
C31_Witness ==
    /\ pc["ldLoop"] = "wait"
    /\ chatLog # <<>>
    /\ chatLog[Len(chatLog)].count = NoCount
    /\ seenArticles # NoArticles
    /\ seenFile # SeenFileMissing
    /\ seenMessages[monitorGen] # {}
    /\ seenMsgFile # MsgFileMissing

\* the messages fetchNotificationsByType adds to what FetchUnreadMessages returns
returnedNow(t) ==
    {msgOut'[t][i].ID : i \in (Len(msgOut[t]) + 1)..Len(msgOut'[t])}

\* the messages earlier checks returned (checkLd246 merges every batch into
\* the list before the loop ticks again) and those of this check so far
returnedBefore(t) ==
    IDsOf(recentNotifications) \cup IDsOf(msgOut[t])

C33_EmptyTokenFailsFast ==
    [][(ld246Token = <<>> /\ fetchErr' # fetchErr)
          => (httpCalls' = httpCalls /\ fetchErr'.err = "input")]_vars

\* C34: once Start has been called on a scheduler that is never stopped, a
\* loop whose fetches return begins its check again and again and gets through
\* it again and again, whatever the fetches of the other loop do.
C34_ChecksRecur ==
    \A t \in Loops :
       WF_vars(FetchReturns(t))
          => /\ running ~> (pc[t] = FirstStep(t))
             /\ running ~> (pc[t] = "wait")

\* the GitHub loop is through a check while the ld246 loop is still in its
\* first fetch
C34_Witness ==
    /\ running
    /\ pc["ldLoop"] = "ld_check"
    /\ pc["ghLoop"] = "wait"
    /\ recentNotifications # <<>>

\* C35: whenever the running flag is set and no Start is still spawning, each
\* source has a polling loop that has not returned, also after Stop and Start.
C35_RunningHasLoops ==
    (running /\ \A c \in Callers : callPc[c] = "idle")
       => \A src \in Sources : loopsAlive[src] >= 1

\* C36: from the return of a Stop that did not time out until the next Start,
\* with every Start returned and every polling loop gone, nothing reaches the
\* sink and nothing is merged into the list, also when a manual check was
\* under way at the Stop.
C36_QuietAfterStop ==
    [][(/\ stopPc = "returned"
        /\ ~running
        /\ \A c \in Callers : callPc[c] = "idle"
        /\ \A src \in Sources : loopsAlive[src] = 0)
          => (sinkOK' = sinkOK /\ recentNotifications' = recentNotifications)]_vars

\* the unread messages of the category a check has just listed
listedUnread(t) ==
    IDsOf(messageNotes({}, msgListing'[t].ty, msgListing'[t].items))

\* returned by an earlier check and merged, but never shown by the sink
deliveryFailed(id) == id \in IDsOf(recentNotifications) /\ sinkOK[id] = 0

\* C37: a message whose delivery failed on an earlier tick is returned again
\* by the next check that lists it as unread, so that the sink gets another
\* try at it.
C37_FailedDeliveryOfferedAgain ==
    [][\A t \in LdThreads :
          (pc[t] = "msg_type" /\ msgListing'[t] # msgListing[t])
             => \A id \in listedUnread(t) :
                   deliveryFailed(id) => id \in IDsOf(msgOut'[t])]_vars

\* C38: a call of FetchNotificationsSince that returns without an error (200
\* or 304) leaves the cursor at least where it was, whatever Last-Modified
\* header the response carries.
C38_CursorNeverBack ==
    [][(ghReturn' # ghReturn /\ ghReturn'.err = "nil")
          => lastModified' >= lastModified]_vars

\* C39: UpdateConfig leaves the running flag, the goroutines, the list and the
\* delivered identifiers as they are, and an identifier the notifier has
\* marked as delivered is not shown again, also not when the rebuilt GitHub
\* monitor returns it once more.
C39_UpdateConfigKeepsTheRest ==
    [][/\ monitorGen' # monitorGen
          => /\ running' = running
             /\ pc' = pc
             /\ loopsAlive' = loopsAlive
             /\ recentNotifications' = recentNotifications
             /\ notifiedIDs' = notifiedIDs
             /\ sinkOK' = sinkOK
       /\ \A id \in notifiedIDs : sinkOK'[id] = sinkOK[id]]_vars

\* after UpdateConfig the GitHub loop is about to hand the notifier an
\* identifier that was delivered before
C39_Witness ==
    /\ monitorGen = 1
    /\ ticks = 1
    /\ pc["ghLoop"] = "n_check"
    /\ Current("ghLoop").ID \in notifiedIDs
    /\ sinkOK[Current("ghLoop").ID] = 1

\* the messages the current monitor marked as seen that the list does not hold
markedNotMerged(t) ==
    {k \in DOMAIN inbox :
        /\ messageKey(typeOf(k), ServerMessage(k, FALSE)) \in seenMessages[msgMon[t]]
        /\ messageNotification(typeOf(k), ServerMessage(k, FALSE)).ID
              \notin IDsOf(recentNotifications)}

\* C40: within one check of the community site the requests fail one by one:
\* after a failed recent-replies request the check goes on to the unread
\* messages, after a failed category request it goes on to the next category
\* (or to the chat notification after the last one) with what it has
\* collected, and FetchUnreadMessages returns the messages of the categories
\* that answered together with the chat notification.
C40_SubOperationsFailAlone ==
    [][\A t \in Loops :
          /\ (pc[t] = "ld_check" /\ pc'[t] # pc[t])
                => pc'[t] \in {"ld_update", "msg_count"}
          /\ typeFailedStep(t)
                => /\ msgTodo'[t] = Tail(msgTodo[t])
                   /\ pc'[t] = IF Tail(msgTodo[t]) = <<>> THEN "msg_chat" ELSE "msg_type"
                   /\ msgOut'[t] = msgOut[t]
                   /\ msgChat'[t] = msgChat[t]
          /\ (pc[t] = "msg_chat" /\ pc'[t] # pc[t])
                => /\ pc'[t] = "n_check"
                      \/ (msgChat[t] = 0 /\ markedNotMerged(t) = {})
                   /\ pc'[t] = "n_check"
                         => /\ msgChat[t] > 0 => chatID(msgChat[t]) \in IDsOf(batch'[t])
                            /\ \A k \in markedNotMerged(t) :
                                  messageNotification(typeOf(k), ServerMessage(k, FALSE)).ID
                                     \in IDsOf(batch'[t])]_vars

\* the first check returns the "at" message and the chat notification although
\* the recent-replies request and the "commented" request failed
C40_Witness ==
    /\ checks = 1
    /\ pc["ldLoop"] = "n_check"
    /\ stage["ldLoop"] = "ld246"
    /\ seenArticles = NoArticles
    /\ inbox[1] = "unread"
    /\ messageKey(typeOf(1), ServerMessage(1, FALSE)) \notin seenMessages[0]
    /\ IDsOf(batch["ldLoop"])
          = {messageNotification(typeOf(2), ServerMessage(2, FALSE)).ID, chatID(1)}

====
